---- MODULE Spec2Model ----
(***************************************************************************)
(* Model of the tool-calling orchestrator (src/src/lib/tools.ts), the      *)
(* transport requests it builds (src/src/lib/api.ts) and the SSE stream    *)
(* decoder (src/unnamed/part_006, imported as ./lib/streaming).            *)
(***************************************************************************)
EXTENDS Integers, Sequences, FiniteSets, TLC

\* ------------------------------------------------------------------ bounds
\* Total number of tool-call records the scripted server may emit in a turn.
MaxToolCalls == 3
\* Largest number of tool-call records in one decision response.
MaxCallsPerRound == 2
\* Longest sequence of freely chosen lines in a stream payload.
MaxLines == 2
\* Most malformed data lines in a payload of the malformed-run family.
MaxBadRun == 5
\* Longest chunk, short of the whole rest, of a payload outside the two
\* scenario payloads (those are split at every offset).
MaxChunk == 3

\* ------------------------------------------------------- program constants
\* A loop bound one round longer.
maxRoundsFour == 3 + 1

\* tools.ts:78  const maxRounds = 3;
maxRounds == 3

\* tools.ts:12-31  BUILT_IN_TOOLS, by declared name.
BUILT_IN_TOOLS == {"web_search"}

\* Absent optional field (tool_call_id, error, stream).
None == "none"

\* ------------------------------------------------------------ message data
\* types.ts:29-36  ChatMessage; an absent tool_calls is <<>>, an absent
\* tool_call_id is None.
Msg(role, content, tool_calls, tool_call_id) ==
  [role |-> role, content |-> content,
   tool_calls |-> tool_calls, tool_call_id |-> tool_call_id]

\* types.ts:18-25  ToolCall: id, function.name, function.arguments.
ToolCall(id, name, arguments) ==
  [id |-> id, name |-> name, arguments |-> arguments]

\* Argument payload strings the server may send.
ArgInvalid == "{bad"
ArgNull == "null"
ArgNoQuery == "{}"
ArgQuery == "{\"query\":\"tla\"}"
ArgPayloads == {ArgInvalid, ArgNull, ArgNoQuery, ArgQuery}

\* JSON.parse on the argument payloads above (tools.ts:41): a SyntaxError
\* for text that is not JSON, the value null for "null", an object else.
JSONParseArgs(argsJson) ==
  CASE argsJson = ArgNull    -> [ok |-> TRUE,  isNull |-> TRUE,  query |-> ""]
    [] argsJson = ArgNoQuery -> [ok |-> TRUE,  isNull |-> FALSE, query |-> ""]
    [] argsJson = ArgQuery   -> [ok |-> TRUE,  isNull |-> FALSE, query |-> "tla"]
    [] OTHER                 -> [ok |-> FALSE, isNull |-> FALSE, query |-> ""]

\* Outcomes of webSearch (web-search.ts:24-70): results, no result, throw.
SearchOutcomes == {"results", "empty", "throws"}

\* web-search.ts:75-82  formatSearchContext.
formatSearchContext(results) ==
  IF results = "empty" THEN "" ELSE "Web search results:\n\n1. [t](u)\n   s"

InvalidJsonMsg(name) ==
  IF name = "web_search"
    THEN "Error: Invalid JSON arguments for tool \"web_search\""
    ELSE "Error: Invalid JSON arguments for tool \"calculator\""
UnknownToolMsg(name) ==
  IF name = "web_search"
    THEN "Error: Unknown tool \"web_search\""
    ELSE "Error: Unknown tool \"calculator\""
MissingQueryMsg == "Error: Missing query parameter"
SearchErrorMsg == "Search error: No Brave Search API key configured"

\* executeTool without the try block around JSON.parse.
executeToolNoCatch(tc, search) ==
  LET args == JSONParseArgs(tc.arguments) IN
  IF ~args.ok THEN [threw |-> TRUE, text |-> "SyntaxError"]
  ELSE IF tc.name = "web_search" THEN
         IF args.isNull THEN [threw |-> TRUE, text |-> "TypeError"]
         ELSE IF args.query = "" THEN [threw |-> FALSE, text |-> MissingQueryMsg]
         ELSE IF search = "throws" THEN [threw |-> FALSE, text |-> SearchErrorMsg]
         ELSE [threw |-> FALSE, text |-> formatSearchContext(search)]
  ELSE [threw |-> FALSE, text |-> UnknownToolMsg(tc.name)]

\* tools.ts:36-60  executeTool.  The result is [threw, text]: threw is TRUE
\* when the promise rejects (args.query on a null args, line 48, is outside
\* every try block).
executeTool(tc, search) ==
  LET args == JSONParseArgs(tc.arguments) IN
  IF ~args.ok THEN [threw |-> FALSE, text |-> InvalidJsonMsg(tc.name)]
  ELSE IF tc.name = "web_search" THEN
         IF args.isNull THEN [threw |-> TRUE, text |-> "TypeError"]
         ELSE IF args.query = "" THEN [threw |-> FALSE, text |-> MissingQueryMsg]
         ELSE IF search = "throws" THEN [threw |-> FALSE, text |-> SearchErrorMsg]
         ELSE [threw |-> FALSE, text |-> formatSearchContext(search)]
  ELSE [threw |-> FALSE, text |-> UnknownToolMsg(tc.name)]


\* ============================================================ SSE decoder
\* Text is a sequence of one-character strings.  TextDecoder.decode
\* (part_006:27) is the identity on the ASCII payloads modelled here.
\* part_006:43,47  the marker "data:"
DataMarker ==
  <<"d", "a", "t", "a", ":">>
\* A sentinel of another spelling.
DoneSentinelOther ==
  <<"[", "E", "N", "D", "]">>
\* part_006:50  the sentinel "[DONE]"
DoneSentinel ==
  <<"[", "D", "O", "N", "E", "]">>
\* part_006:80  the prefix "data: [DONE]"
DoneLinePrefix ==
  <<"d", "a", "t", "a", ":", " ", "[", "D", "O", "N", "E", "]">>
\* wire lines (spec.md section 6 and 8)
LineA ==
  <<"d", "a", "t", "a", ":", " ", "{", "\"", "c", "h", "o", "i", "c", "e",
    "s", "\"", ":", "[", "{", "\"", "d", "e", "l", "t", "a", "\"", ":", "{",
    "\"", "c", "o", "n", "t", "e", "n", "t", "\"", ":", "\"", "A", "\"", "}",
    "}", "]", "}">>
LineB ==
  <<"d", "a", "t", "a", ":", " ", "{", "\"", "c", "h", "o", "i", "c", "e",
    "s", "\"", ":", "[", "{", "\"", "d", "e", "l", "t", "a", "\"", ":", "{",
    "\"", "c", "o", "n", "t", "e", "n", "t", "\"", ":", "\"", "B", "\"", "}",
    "}", "]", "}">>
LineHi ==
  <<"d", "a", "t", "a", ":", " ", "{", "\"", "c", "h", "o", "i", "c", "e",
    "s", "\"", ":", "[", "{", "\"", "d", "e", "l", "t", "a", "\"", ":", "{",
    "\"", "c", "o", "n", "t", "e", "n", "t", "\"", ":", "\"", "H", "i", "\"",
    "}", "}", "]", "}">>
LineDone ==
  <<"d", "a", "t", "a", ":", " ", "[", "D", "O", "N", "E", "]">>
LineRole ==
  <<"d", "a", "t", "a", ":", " ", "{", "\"", "c", "h", "o", "i", "c", "e",
    "s", "\"", ":", "[", "{", "\"", "d", "e", "l", "t", "a", "\"", ":", "{",
    "\"", "r", "o", "l", "e", "\"", ":", "\"", "a", "\"", "}", "}", "]", "}">>
LineEmptyContent ==
  <<"d", "a", "t", "a", ":", " ", "{", "\"", "c", "h", "o", "i", "c", "e",
    "s", "\"", ":", "[", "{", "\"", "d", "e", "l", "t", "a", "\"", ":", "{",
    "\"", "c", "o", "n", "t", "e", "n", "t", "\"", ":", "\"", "\"", "}", "}",
    "]", "}">>
LineNoChoices ==
  <<"d", "a", "t", "a", ":", " ", "{", "\"", "c", "h", "o", "i", "c", "e",
    "s", "\"", ":", "[", "]", "}">>
LineBad ==
  <<"d", "a", "t", "a", ":", " ", "{", "x">>
LineNull ==
  <<"d", "a", "t", "a", ":", " ", "n", "u", "l", "l">>
LineComment ==
  <<":", " ", "k">>
LineEvent ==
  <<"e", "v", "e", "n", "t", ":", " ", "m">>
LineEmptyObj ==
  <<"d", "a", "t", "a", ":", " ", "{", "}">>
LineNumber ==
  <<"d", "a", "t", "a", ":", " ", "{", "\"", "c", "h", "o", "i", "c", "e",
    "s", "\"", ":", "[", "{", "\"", "d", "e", "l", "t", "a", "\"", ":", "{",
    "\"", "c", "o", "n", "t", "e", "n", "t", "\"", ":", "7", "}", "}", "]",
    "}">>
LineDoneCR ==
  <<"d", "a", "t", "a", ":", "[", "D", "O", "N", "E", "]", "\r">>

\* String.prototype.trim: white space and line terminators.
WhiteSpace == {" ", "\t", "\r", "\n"}

RECURSIVE TrimStart(_)
TrimStart(s) ==
  IF s # <<>> /\ Head(s) \in WhiteSpace THEN TrimStart(Tail(s)) ELSE s

RECURSIVE TrimEnd(_)
TrimEnd(s) ==
  IF s # <<>> /\ s[Len(s)] \in WhiteSpace
    THEN TrimEnd(SubSeq(s, 1, Len(s) - 1)) ELSE s

Trim(s) == TrimEnd(TrimStart(s))

\* String.prototype.startsWith
StartsWith(s, p) == Len(s) >= Len(p) /\ SubSeq(s, 1, Len(p)) = p

\* String.prototype.slice(n)
Slice(s, n) == SubSeq(s, n + 1, Len(s))

\* part_006:31  buffer.split("\n"): the segments between line feeds; the
\* last segment is the text after the last line feed.
RECURSIVE SplitFrom(_, _)
SplitFrom(s, start) ==
  LET feeds == {i \in start..Len(s) : s[i] = "\n"} IN
  IF feeds = {} THEN <<SubSeq(s, start, Len(s))>>
  ELSE LET i == CHOOSE j \in feeds : \A k \in feeds : j <= k IN
       <<SubSeq(s, start, i - 1)>> \o SplitFrom(s, i + 1)

Split(s) == SplitFrom(s, 1)

\* ------------------------------------------------------------- JSON values
Undefined == <<"undefined">>
JNull == <<"null">>
JTrue == <<"true">>
JFalse == <<"false">>
JStr(chars) == <<"str", chars>>
JNum(digits) == <<"num", digits>>
JArr(elems) == <<"arr", elems>>
JObj(members) == <<"obj", members>>

Digits == {"0", "1", "2", "3", "4", "5", "6", "7", "8", "9"}

ParseFail == [ok |-> FALSE, v |-> Undefined, n |-> 0]
ParseOk(v, n) == [ok |-> TRUE, v |-> v, n |-> n]

\* Index of the first quote at or after i, 0 when there is none.
RECURSIVE FindQuote(_, _)
FindQuote(s, i) ==
  IF i > Len(s) THEN 0
  ELSE IF s[i] = "\"" THEN i ELSE FindQuote(s, i + 1)

\* Index after the run of digits starting at i.
RECURSIVE DigitsEnd(_, _)
DigitsEnd(s, i) ==
  IF i <= Len(s) /\ s[i] \in Digits THEN DigitsEnd(s, i + 1) ELSE i

ParseLiteral(s, i, word, v) ==
  IF StartsWith(Slice(s, i - 1), word) THEN ParseOk(v, i + Len(word))
  ELSE ParseFail

StringEndingAt(s, i, j) ==
  IF j = 0 THEN ParseFail ELSE ParseOk(JStr(SubSeq(s, i + 1, j - 1)), j + 1)

ParseString(s, i) == StringEndingAt(s, i, FindQuote(s, i + 1))

NumberEndingAt(s, i, e) ==
  IF s[i] = "0" /\ e > i + 1 THEN ParseFail
  ELSE ParseOk(JNum(SubSeq(s, i, e - 1)), e)

\* JSON.parse (part_006:57,83) on JSON text without insignificant white
\* space, escapes, signs, fractions or exponents: recursive descent over
\* objects, arrays, strings, integers and the three literals.  AfterElem
\* goes on after the array element r, AfterKey after the member name k,
\* AfterMember after the member value r of the name k.
RECURSIVE ParseValue(_, _), AfterElem(_, _, _), AfterKey(_, _, _),
          AfterMember(_, _, _, _)
ParseElems(s, i, acc) == AfterElem(s, ParseValue(s, i), acc)

ParseMembers(s, i, acc) ==
  IF i > Len(s) \/ s[i] # "\"" THEN ParseFail
  ELSE AfterKey(s, ParseString(s, i), acc)

ParseValue(s, i) ==
  IF i > Len(s) THEN ParseFail
  ELSE CASE s[i] = "{" ->
              IF i + 1 <= Len(s) /\ s[i + 1] = "}"
                THEN ParseOk(JObj(<<>>), i + 2)
                ELSE ParseMembers(s, i + 1, <<>>)
         [] s[i] = "[" ->
              IF i + 1 <= Len(s) /\ s[i + 1] = "]"
                THEN ParseOk(JArr(<<>>), i + 2)
                ELSE ParseElems(s, i + 1, <<>>)
         [] s[i] = "\"" -> ParseString(s, i)
         [] s[i] = "n" -> ParseLiteral(s, i, <<"n", "u", "l", "l">>, JNull)
         [] s[i] = "t" -> ParseLiteral(s, i, <<"t", "r", "u", "e">>, JTrue)
         [] s[i] = "f" ->
              ParseLiteral(s, i, <<"f", "a", "l", "s", "e">>, JFalse)
         [] s[i] \in Digits -> NumberEndingAt(s, i, DigitsEnd(s, i))
         [] OTHER -> ParseFail

AfterElem(s, r, acc) ==
  IF ~r.ok \/ r.n > Len(s) THEN ParseFail
  ELSE IF s[r.n] = "," THEN ParseElems(s, r.n + 1, Append(acc, r.v))
  ELSE IF s[r.n] = "]" THEN ParseOk(JArr(Append(acc, r.v)), r.n + 1)
  ELSE ParseFail

AfterKey(s, k, acc) ==
  IF ~k.ok \/ k.n > Len(s) \/ s[k.n] # ":" THEN ParseFail
  ELSE AfterMember(s, k.v[2], ParseValue(s, k.n + 1), acc)

AfterMember(s, key, r, acc) ==
  IF ~r.ok \/ r.n > Len(s) THEN ParseFail
  ELSE IF s[r.n] = "," THEN ParseMembers(s, r.n + 1, Append(acc, <<key, r.v>>))
  ELSE IF s[r.n] = "}" THEN ParseOk(JObj(Append(acc, <<key, r.v>>)), r.n + 1)
  ELSE ParseFail

WholeText(s, r) == IF r.ok /\ r.n = Len(s) + 1 THEN r ELSE ParseFail

JSONParse(s) == WholeText(s, ParseValue(s, 1))

\* Property access v[key] on a parsed value that is neither null nor
\* undefined: the last member of that name of an object, undefined else.
RECURSIVE Lookup(_, _, _)
Lookup(members, key, i) ==
  IF i = 0 THEN Undefined
  ELSE IF members[i][1] = key THEN members[i][2]
  ELSE Lookup(members, key, i - 1)

Get(v, key) ==
  IF v[1] = "obj" THEN Lookup(v[2], key, Len(v[2])) ELSE Undefined

\* v?.[0]
OptIndex0(v) ==
  IF v \in {Undefined, JNull} THEN Undefined
  ELSE IF v[1] = "arr" THEN (IF v[2] = <<>> THEN Undefined ELSE v[2][1])
  ELSE IF v[1] = "str" THEN (IF v[2] = <<>> THEN Undefined
                             ELSE JStr(<<v[2][1]>>))
  ELSE Get(v, <<"0">>)

\* v?.key
OptGet(v, key) == IF v \in {Undefined, JNull} THEN Undefined ELSE Get(v, key)

KeyChoices == <<"c", "h", "o", "i", "c", "e", "s">>
KeyDelta == <<"d", "e", "l", "t", "a">>
KeyContent == <<"c", "o", "n", "t", "e", "n", "t">>

KeyMessage == <<"m", "e", "s", "s", "a", "g", "e">>

\* The content of the non-streaming response shape, choices[0].message.
DeltaContentMessage(chunk) ==
  OptGet(OptGet(OptIndex0(Get(chunk, KeyChoices)), KeyMessage), KeyContent)

\* part_006:70  chunk.choices?.[0]?.delta?.content, for a chunk that is
\* not null.
DeltaContent(chunk) ==
  OptGet(OptGet(OptIndex0(Get(chunk, KeyChoices)), KeyDelta), KeyContent)

\* part_006:71  if (content)
Truthy(v) ==
  /\ v \notin {Undefined, JNull, JFalse, JStr(<<>>)}
  /\ ~(v[1] = "num" /\ v[2] = <<"0">>)

\* A threshold test written > 5.
FailureThresholdOffByOne == 5 + 1

\* part_006:62  consecutiveParseFailures >= 5
FailureThreshold == 5

\* part_006:35-73  the body of the line loop for one line.
ProcessLine(line, failures) ==
  LET trimmed == Trim(line)
      skip == [kind |-> "skip", token |-> Undefined, failures |-> failures]
  IN
  IF trimmed = <<>> \/ StartsWith(trimmed, <<":">>) THEN skip
  ELSE IF ~StartsWith(trimmed, DataMarker) THEN skip
  ELSE LET payload == Trim(Slice(trimmed, Len(DataMarker))) IN
       IF payload = DoneSentinel
         THEN [kind |-> "return", token |-> Undefined, failures |-> failures]
       ELSE LET parsed == JSONParse(payload) IN
            IF ~parsed.ok
              THEN IF failures + 1 >= FailureThreshold
                     THEN [kind |-> "malformed", token |-> Undefined,
                           failures |-> failures + 1]
                     ELSE [kind |-> "skip", token |-> Undefined,
                           failures |-> failures + 1]
            ELSE IF parsed.v = JNull
              THEN [kind |-> "typeError", token |-> Undefined, failures |-> 0]
            ELSE LET content == DeltaContent(parsed.v) IN
                 IF Truthy(content)
                   THEN [kind |-> "yield", token |-> content, failures |-> 0]
                   ELSE [kind |-> "skip", token |-> Undefined, failures |-> 0]

\* part_006:34-74  the line loop from its current line up to the next yield,
\* return or throw, or to the end of the lines ("read": back to line 24).
RECURSIVE RunLines(_, _)
RunLines(ls, failures) ==
  IF ls = <<>>
    THEN [status |-> "read", token |-> Undefined, rest |-> <<>>,
          failures |-> failures]
  ELSE LET r == ProcessLine(Head(ls), failures) IN
       IF r.kind = "skip" THEN RunLines(Tail(ls), r.failures)
       ELSE IF r.kind = "yield"
         THEN [status |-> "yield", token |-> r.token, rest |-> Tail(ls),
               failures |-> r.failures]
       ELSE [status |-> IF r.kind = "return" THEN "done" ELSE r.kind,
             token |-> Undefined, rest |-> <<>>, failures |-> r.failures]

\* part_006:78-95  the residual buffer after the source is exhausted: the
\* token it yields, Undefined when it yields none.
ProcessTail(buf) ==
  LET trimmed == Trim(buf) IN
  IF trimmed = <<>> THEN Undefined
  ELSE IF StartsWith(trimmed, DataMarker) /\ ~StartsWith(trimmed, DoneLinePrefix)
    THEN LET parsed == JSONParse(Trim(Slice(trimmed, Len(DataMarker)))) IN
         IF ~parsed.ok \/ parsed.v = JNull THEN Undefined
         ELSE LET content == DeltaContent(parsed.v) IN
              IF Truthy(content) THEN content ELSE Undefined
  ELSE Undefined

\* ------------------------------------------------------------------- state
VARIABLES
  request,       \* the ChatRequest handed to runWithTools: messages, tools
  messages,      \* tools.ts:76  local copy of request.messages
  toolMessages,  \* tools.ts:77
  round,         \* tools.ts:80  loop counter
  pending,       \* tool calls of the current round not yet executed
  pc,            \* position of runWithTools
  calls,         \* every transport request issued, in order
  trace,         \* events of the turn, in order
  result,        \* what runWithTools returned: None or "stream"
  received,      \* choices of every decision response received, in order
  emitted        \* number of tool-call records the server has sent

orchVars == <<request, messages, toolMessages, round, pending, pc, calls,
              trace, result, received, emitted>>

VARIABLES
  payload,       \* every character the source will deliver
  pos,           \* number of characters delivered so far
  buffer,        \* part_006:19  residual partial line
  lines,         \* part_006:31  lines of the current chunk not yet processed
  consecutiveParseFailures,  \* part_006:20
  out,           \* tokens yielded so far, in order
  dpc,           \* position of the generator
  locked,        \* the source's reader is held (getReader .. releaseLock)
  splitDelivery  \* some chunk ended before the end of the payload

decVars == <<payload, pos, buffer, lines, consecutiveParseFailures, out, dpc,
             locked, splitDelivery>>

VARIABLES
  config,        \* types.ts:103-111  ProviderConfig: type, baseUrl
  apiFn,         \* the transport function called
  apiRequest,    \* the ChatRequest handed to it: messages, tools
  readable,      \* image paths readFileSync can read
  apiBody,       \* the request body it sent
  apiPc,         \* position of the transport function
  raised,        \* the error raised inside its try block
  cause,         \* what made the exchange fail
  thrown         \* the error it threw to its caller

apiVars == <<config, apiFn, apiRequest, readable, apiBody, apiPc, raised,
             cause, thrown>>

\* The application layer around the core: message trimming.
VARIABLES
  trimArg,      \* api.ts:368  the messages argument of trimMessages
  trimMax,      \* api.ts:369  its maxMessages argument
  trimResult,   \* the list trimMessages returned
  trimPc        \* "idle" | "ready" | "returned"

trimVars == <<trimArg, trimMax, trimResult, trimPc>>

\* The conversation storage.
VARIABLES
  localStorage, \* part_000:12  LocalStorage: the items, by key
  storeCalls,   \* the storage calls in flight, each at one of its awaits
  storeOps      \* how many storage calls were started

storeVars == <<localStorage, storeCalls, storeOps>>

\* The chat view (part_001:310-332).
VARIABLES
  viewMessages,     \* part_001:310  messages
  isLoading,        \* part_001:311
  hasConfig,        \* part_001:313  config is no longer null
  conversationId,   \* part_001:316
  initDone,         \* part_001:319
  autoSendImageRef, \* part_001:329  the pending image, or None
  turns,            \* the handleSendMessage calls made, each at one await
  clipboardRead,    \* the Send Clipboard Image action at its await, or None
  idsMade,          \* how many ids generateId has made
  clock             \* Date.now()

chatVars == <<viewMessages, isLoading, hasConfig, conversationId, initDone,
              autoSendImageRef, turns, clipboardRead, idsMade, clock>>

appVars == <<trimVars, storeVars, chatVars>>

vars == <<orchVars, decVars, apiVars, appVars>>

\* ---------------------------------------------------------------- requests
SystemMsg == Msg("system", "You are helpful", <<>>, None)
UserMsg == Msg("user", "price of gold today", <<>>, None)

\* Message lists a caller may pass (part_001:472-508).
OriginalMessages == {<<UserMsg>>, <<SystemMsg, UserMsg>>}

\* types.ts:38-45  ChatRequest; tools is the set of declared tool names of
\* its optional tools field, {} when the field is absent.
Requests ==
  [messages : OriginalMessages, tools : {{}, BUILT_IN_TOOLS}]

\* ------------------------------------------------------- transport requests
\* types.ts:33  images?: string[] -- m.images?.length is truthy.
HasImages(m) == "images" \in DOMAIN m /\ m.images # <<>>

\* api.ts:244  a text part.
TextPart(text) == [type |-> "text", text |-> text]

\* readFileSync(imgPath).toString("base64") for a readable file.
Base64(imgPath) == <<"base64", imgPath>>

\* An unreadable image that is left out.
ImagePartSkipped(imgPath) ==
  IF imgPath \in readable
    THEN <<[type |-> "image_url",
            image_url |-> [url |-> <<"data:image/png;base64,", Base64(imgPath)>>]]>>
    ELSE <<>>

\* api.ts:247-256  the part pushed for one image reference: the embedded
\* file, or the placeholder when readFileSync throws.
ImagePart(imgPath) ==
  IF imgPath \in readable
    THEN <<[type |-> "image_url",
            image_url |-> [url |-> <<"data:image/png;base64,", Base64(imgPath)>>]]>>
    ELSE <<TextPart("[Image failed to load]")>>

\* api.ts:246-257  the loop over msg.images.
RECURSIVE ImageParts(_)
ImageParts(images) ==
  IF images = <<>> THEN <<>>
  ELSE ImagePart(Head(images)) \o ImageParts(Tail(images))

\* api.ts:240-258  the mapping of one message.
PrepareMessage(msg) ==
  IF ~HasImages(msg) THEN msg
  ELSE LET parts == (IF msg.content # "" THEN <<TextPart(msg.content)>>
                     ELSE <<>>) \o ImageParts(msg.images) IN
       [role |-> msg.role,
        content |-> IF Len(parts) > 0 THEN parts ELSE msg.content]

\* A mapping that keeps role and content only.
prepareMessagesForApiStripped(msgs) ==
  IF ~\E i \in DOMAIN msgs : HasImages(msgs[i]) THEN msgs
  ELSE [i \in DOMAIN msgs |->
          IF HasImages(msgs[i]) THEN PrepareMessage(msgs[i])
          ELSE [role |-> msgs[i].role, content |-> msgs[i].content]]

\* api.ts:236-260  prepareMessagesForApi.
prepareMessagesForApi(msgs) ==
  IF ~\E i \in DOMAIN msgs : HasImages(msgs[i]) THEN msgs
  ELSE [i \in DOMAIN msgs |-> PrepareMessage(msgs[i])]

\* api.ts:271-275  body of sendChat: {...request, messages, stream}.
sendChatBody(req) ==
  [kind |-> "plain", messages |-> prepareMessagesForApi(req.messages),
   stream |-> FALSE, tools |-> req.tools]

\* api.ts:333-338  body of sendChatWithTools: {...request, messages, tools}.
sendChatWithToolsBody(req, tools) ==
  [kind |-> "tools", messages |-> prepareMessagesForApi(req.messages),
   stream |-> FALSE, tools |-> tools]

\* A streaming body built from the caller's request, not the accumulated
\* message list.
sendChatStreamBodyOriginal(req) ==
  [kind |-> "stream", messages |-> prepareMessagesForApi(request.messages),
   stream |-> TRUE, tools |-> req.tools]

\* api.ts:298-302  body of sendChatStream: {...request, messages, stream}.
sendChatStreamBody(req) ==
  [kind |-> "stream", messages |-> prepareMessagesForApi(req.messages),
   stream |-> TRUE, tools |-> req.tools]

\* ------------------------------------------------------ scripted responses
ToolNames == {"web_search", "calculator"}
CallIds == <<"call_a", "call_b", "call_c", "call_d">>

ToolCallShapes ==
  {<<"web_search", a>> : a \in ArgPayloads}
    \cup {<<"calculator", ArgNoQuery>>, <<"calculator", ArgInvalid>>}

\* Text beside the tool calls of a response (tools.ts:98).
Contents(n) == IF n = 1 THEN {"", "Searching"} ELSE {""}

\* Lists of n tool-call records with the ids call_a, call_b, ...
RECURSIVE ToolCallLists(_)
ToolCallLists(n) ==
  IF n = 0 THEN {<<>>}
  ELSE {Append(l, ToolCall(CallIds[n], s[1], s[2])) :
          l \in ToolCallLists(n - 1), s \in ToolCallShapes}

\* types.ts:47-58  ChatResponse, reduced to its choices.
Choice(finish_reason, content, tool_calls) ==
  [finish_reason |-> finish_reason,
   message |-> Msg("assistant", content, tool_calls, None)]

Responses(budget) ==
  LET k == IF budget < MaxCallsPerRound THEN budget ELSE MaxCallsPerRound IN
  {<<>>}
    \cup {<<Choice("stop", "final text", <<>>)>>,
          <<Choice("length", "final te", <<>>)>>,
          <<Choice("tool_calls", "", <<>>)>>}
    \cup {<<Choice("stop", "text", l)>> :
            l \in IF k >= 1 THEN {<<ToolCall("call_a", "web_search", ArgQuery)>>}
                  ELSE {}}
    \cup UNION {{<<Choice("tool_calls", c, l)>> :
                   l \in ToolCallLists(n), c \in Contents(n)} : n \in 1..k}

\* --------------------------------------------------------------------- init
\* No request body has been built.
NoBody == [kind |-> None]

\* No transport function is being followed on its own.
ApiIdle ==
  /\ config = [type |-> "ollama", baseUrl |-> "http://localhost:11434"]
  /\ apiFn = None
  /\ apiRequest = None
  /\ readable = {}
  /\ apiBody = NoBody
  /\ apiPc = "idle"
  /\ raised = None
  /\ cause = None
  /\ thrown = None

\* trimMessages is not being followed on its own.
TrimIdle ==
  /\ trimArg = <<>>
  /\ trimMax = 0
  /\ trimResult = <<>>
  /\ trimPc = "idle"

\* The storage is empty and no storage call is in flight.
StoreIdle ==
  /\ localStorage = <<>>
  /\ storeCalls = <<>>
  /\ storeOps = 0

\* No chat view is mounted.
NoClosure == [isLoading |-> FALSE, hasConfig |-> FALSE, messages |-> <<>>,
              conversationId |-> 0, pc |-> "idle"]
ChatIdle ==
  /\ viewMessages = <<>>
  /\ isLoading = FALSE
  /\ hasConfig = FALSE
  /\ conversationId = 0
  /\ initDone = FALSE
  /\ autoSendImageRef = None
  /\ turns = <<>>
  /\ clipboardRead = NoClosure
  /\ idsMade = 0
  /\ clock = 0

\* Nothing of the application layer is being followed.
AppIdle ==
  /\ TrimIdle
  /\ StoreIdle
  /\ ChatIdle

\* No stream is being decoded.
DecoderIdle ==
  /\ payload = <<>>
  /\ pos = 0
  /\ buffer = <<>>
  /\ lines = <<>>
  /\ consecutiveParseFailures = 0
  /\ out = <<>>
  /\ dpc = "idle"
  /\ locked = FALSE
  /\ splitDelivery = FALSE

Init ==
  /\ request \in Requests
  /\ messages = request.messages
  /\ toolMessages = <<>>
  /\ round = 0
  /\ pending = <<>>
  /\ pc = "deciding"
  /\ calls = <<>>
  /\ trace = <<>>
  /\ result = None
  /\ received = <<>>
  /\ emitted = 0
  /\ DecoderIdle
  /\ ApiIdle
  /\ AppIdle

\* ------------------------------------------------------------------ actions
\* A decision call that sends the caller's request as it was given.
IssueDecisionOriginal ==
  /\ pc = "deciding"
  /\ round < maxRounds
  /\ calls' = Append(calls, sendChatWithToolsBody(request, BUILT_IN_TOOLS))
  /\ trace' = Append(trace, "decision_call")
  /\ pc' = "awaitDecision"
  /\ UNCHANGED <<decVars, apiVars, appVars>>
  /\ UNCHANGED <<request, messages, toolMessages, round, pending, result,
                 received, emitted>>

\* tools.ts:81-85  sendChatWithTools(config, {...request, messages}, tools)
IssueDecision ==
  /\ pc = "deciding"
  /\ round < maxRounds
  /\ calls' = Append(calls,
       sendChatWithToolsBody([request EXCEPT !.messages = messages],
                             BUILT_IN_TOOLS))
  /\ trace' = Append(trace, "decision_call")
  /\ pc' = "awaitDecision"
  /\ UNCHANGED <<decVars, apiVars, appVars>>
  /\ UNCHANGED <<request, messages, toolMessages, round, pending, result,
                 received, emitted>>

\* A failed decision call that is sent again.
DecisionFailsRetry ==
  /\ pc = "awaitDecision"
  /\ trace' = Append(trace, "decision_error")
  /\ pc' = "deciding"
  /\ UNCHANGED <<decVars, apiVars, appVars>>
  /\ UNCHANGED <<request, messages, toolMessages, round, pending, calls,
                 result, received, emitted>>

\* api.ts:341-347  the with-tools call rejects; tools.ts:81 rethrows.
DecisionFails ==
  /\ pc = "awaitDecision"
  /\ trace' = Append(trace, "decision_error")
  /\ pc' = "error"
  /\ UNCHANGED <<decVars, apiVars, appVars>>
  /\ UNCHANGED <<request, messages, toolMessages, round, pending, calls,
                 result, received, emitted>>

\* A handling that looks at the tool-call records only, not at finish_reason.
DecisionRespondsAnyReason(choices) ==
  /\ pc = "awaitDecision"
  /\ IF Len(choices) = 0
       THEN /\ pc' = "error"
            /\ trace' = Append(trace, "no_choice_error")
            /\ UNCHANGED <<messages, toolMessages, pending, emitted>>
       ELSE LET choice == choices[1] IN
            IF Len(choice.message.tool_calls) > 0
              THEN LET assistantMsg ==
                         Msg("assistant", choice.message.content,
                             choice.message.tool_calls, None) IN
                   /\ messages' = Append(messages, assistantMsg)
                   /\ toolMessages' = Append(toolMessages, assistantMsg)
                   /\ pending' = choice.message.tool_calls
                   /\ emitted' = emitted + Len(choice.message.tool_calls)
                   /\ trace' = Append(trace, "decision_ok")
                   /\ pc' = "executing"
              ELSE /\ pc' = "finalizing"
                   /\ trace' = Append(trace, "decision_ok")
                   /\ UNCHANGED <<messages, toolMessages, pending, emitted>>
  /\ received' = Append(received, choices)
  /\ UNCHANGED <<decVars, apiVars, appVars>>
  /\ UNCHANGED <<request, round, calls, result>>

\* A handling that takes a response without choices for a normal completion.
DecisionRespondsNoChoiceFinalizes(choices) ==
  /\ pc = "awaitDecision"
  /\ IF Len(choices) = 0
       THEN /\ pc' = "finalizing"
            /\ trace' = Append(trace, "decision_ok")
            /\ UNCHANGED <<messages, toolMessages, pending, emitted>>
       ELSE LET choice == choices[1] IN
            IF choice.finish_reason = "tool_calls"
               /\ Len(choice.message.tool_calls) > 0
              THEN LET assistantMsg ==
                         Msg("assistant", choice.message.content,
                             choice.message.tool_calls, None) IN
                   /\ messages' = Append(messages, assistantMsg)
                   /\ toolMessages' = Append(toolMessages, assistantMsg)
                   /\ pending' = choice.message.tool_calls
                   /\ emitted' = emitted + Len(choice.message.tool_calls)
                   /\ trace' = Append(trace, "decision_ok")
                   /\ pc' = "executing"
              ELSE /\ pc' = "finalizing"
                   /\ trace' = Append(trace, "decision_ok")
                   /\ UNCHANGED <<messages, toolMessages, pending, emitted>>
  /\ received' = Append(received, choices)
  /\ UNCHANGED <<decVars, apiVars, appVars>>
  /\ UNCHANGED <<request, round, calls, result>>

\* tools.ts:87-126  handling of one decision response.
DecisionResponds(choices) ==
  /\ pc = "awaitDecision"
  /\ IF Len(choices) = 0
       THEN /\ pc' = "error"
            /\ trace' = Append(trace, "no_choice_error")
            /\ UNCHANGED <<messages, toolMessages, pending, emitted>>
       ELSE LET choice == choices[1] IN
            IF choice.finish_reason = "tool_calls"
               /\ Len(choice.message.tool_calls) > 0
              THEN LET assistantMsg ==
                         Msg("assistant", choice.message.content,
                             choice.message.tool_calls, None) IN
                   /\ messages' = Append(messages, assistantMsg)
                   /\ toolMessages' = Append(toolMessages, assistantMsg)
                   /\ pending' = choice.message.tool_calls
                   /\ emitted' = emitted + Len(choice.message.tool_calls)
                   /\ trace' = Append(trace, "decision_ok")
                   /\ pc' = "executing"
              ELSE /\ pc' = "finalizing"
                   /\ trace' = Append(trace, "decision_ok")
                   /\ UNCHANGED <<messages, toolMessages, pending, emitted>>
  /\ received' = Append(received, choices)
  /\ UNCHANGED <<decVars, apiVars, appVars>>
  /\ UNCHANGED <<request, round, calls, result>>

\* A tool message tagged with the tool's name instead of the record's id.
ToolMsgWrongId(tc, text) == Msg("tool", text, <<>>, tc.name)

\* tools.ts:107-111  the tool message wrapping one result.
ToolMsg(tc, text) == Msg("tool", text, <<>>, tc.id)

\* A tool loop that takes the last pending record first.
ExecuteToolLastFirst(search) ==
  /\ pc = "executing"
  /\ pending # <<>>
  /\ LET tc == pending[Len(pending)]
         r == executeTool(tc, search) IN
     IF r.threw
       THEN /\ pc' = "error"
            /\ trace' = Append(trace, "tool_threw")
            /\ UNCHANGED <<messages, toolMessages, pending, round>>
       ELSE LET toolMsg == ToolMsg(tc, r.text) IN
            /\ messages' = Append(messages, toolMsg)
            /\ toolMessages' = Append(toolMessages, toolMsg)
            /\ pending' = SubSeq(pending, 1, Len(pending) - 1)
            /\ trace' = Append(trace, "tool_executed")
            /\ IF Len(pending) = 1
                 THEN /\ round' = round + 1
                      /\ pc' = IF round + 1 < maxRounds THEN "deciding"
                               ELSE "finalizing"
                 ELSE /\ round' = round
                      /\ pc' = "executing"
  /\ UNCHANGED <<decVars, apiVars, appVars>>
  /\ UNCHANGED <<request, calls, result, received, emitted>>

\* tools.ts:105-117  one iteration of the tool loop: executeTool, then the
\* tool message is pushed; after the last one `continue` increments round.
ExecuteTool(search) ==
  /\ pc = "executing"
  /\ pending # <<>>
  /\ LET tc == Head(pending)
         r == executeTool(tc, search) IN
     IF r.threw
       THEN /\ pc' = "error"
            /\ trace' = Append(trace, "tool_threw")
            /\ UNCHANGED <<messages, toolMessages, pending, round>>
       ELSE LET toolMsg == ToolMsg(tc, r.text) IN
            /\ messages' = Append(messages, toolMsg)
            /\ toolMessages' = Append(toolMessages, toolMsg)
            /\ pending' = Tail(pending)
            /\ trace' = Append(trace, "tool_executed")
            /\ IF Tail(pending) = <<>>
                 THEN /\ round' = round + 1
                      /\ pc' = IF round + 1 < maxRounds THEN "deciding"
                               ELSE "finalizing"
                 ELSE /\ round' = round
                      /\ pc' = "executing"
  /\ UNCHANGED <<decVars, apiVars, appVars>>
  /\ UNCHANGED <<request, calls, result, received, emitted>>

\* tools.ts:129  sendChatStream(config, {...request, messages})
IssueStream ==
  /\ pc = "finalizing"
  /\ calls' = Append(calls,
       sendChatStreamBody([request EXCEPT !.messages = messages]))
  /\ trace' = Append(trace, "stream_call")
  /\ pc' = "awaitStream"
  /\ UNCHANGED <<decVars, apiVars, appVars>>
  /\ UNCHANGED <<request, messages, toolMessages, round, pending, result,
                 received, emitted>>

\* A failed streaming call that is sent again.
StreamFailsRetry ==
  /\ pc = "awaitStream"
  /\ trace' = Append(trace, "stream_error")
  /\ pc' = "finalizing"
  /\ UNCHANGED <<decVars, apiVars, appVars>>
  /\ UNCHANGED <<request, messages, toolMessages, round, pending, calls,
                 result, received, emitted>>

\* api.ts:304-315  the streaming call rejects.
StreamFails ==
  /\ pc = "awaitStream"
  /\ trace' = Append(trace, "stream_error")
  /\ pc' = "error"
  /\ UNCHANGED <<decVars, apiVars, appVars>>
  /\ UNCHANGED <<request, messages, toolMessages, round, pending, calls,
                 result, received, emitted>>

\* tools.ts:129-130  the streaming call resolves; runWithTools returns.
StreamResponds ==
  /\ pc = "awaitStream"
  /\ trace' = Append(trace, "stream_ok")
  /\ result' = "stream"
  /\ pc' = "done"
  /\ UNCHANGED <<decVars, apiVars, appVars>>
  /\ UNCHANGED <<request, messages, toolMessages, round, pending, calls,
                 received, emitted>>

Next ==
  \/ IssueDecision
  \/ DecisionFails
  \/ \E choices \in Responses(MaxToolCalls - emitted) : DecisionResponds(choices)
  \/ \E search \in SearchOutcomes : ExecuteTool(search)
  \/ IssueStream
  \/ StreamFails
  \/ StreamResponds

Spec == Init /\ [][Next]_vars

\* runWithTools when every awaited transport call and tool execution
\* settles and the function goes on after each await.
SpecFair == Spec /\ WF_vars(Next)


\* ------------------------------------------------------- stream payloads
RECURSIVE Flatten(_)
Flatten(ls) ==
  IF ls = <<>> THEN <<>> ELSE Append(Head(ls), "\n") \o Flatten(Tail(ls))

RECURSIVE Repeat(_, _)
Repeat(l, n) == IF n = 0 THEN <<>> ELSE <<l>> \o Repeat(l, n - 1)

\* Lines a server may send.
Templates == {LineA, LineDone, LineBad, LineNull}

\* A last line sent without its line terminator.
Unterminated == {<<>>, LineB}

RECURSIVE LineSeqs(_)
LineSeqs(n) ==
  IF n = 0 THEN {<<>>}
  ELSE LineSeqs(n - 1)
         \cup {Append(ls, l) : ls \in {x \in LineSeqs(n - 1) : Len(x) = n - 1},
                               l \in Templates}

FreePayloads ==
  {Flatten(ls) \o last : ls \in LineSeqs(MaxLines), last \in Unterminated}

\* spec.md section 8, literal round-trip and split-boundary scenarios.
PayloadHi == Flatten(<<LineHi, <<>>, LineDone, <<>>>>)
PayloadAB == Flatten(<<LineA, LineB, LineDone>>)

\* Other line shapes: CRLF terminators, a sentinel without the space, frames
\* without content, event lines, blank lines, unterminated last lines.
OtherPayloads ==
  {Flatten(<<LineA, LineDoneCR, LineB>>),
   Flatten(<<LineEvent, LineRole, <<>>, LineA>>),
   Flatten(<<LineComment, LineB>>),
   Flatten(<<LineEmptyContent, LineNoChoices, LineEmptyObj>>) \o LineA,
   Flatten(<<LineA>>) \o LineDone,
   Flatten(<<LineB>>) \o LineDoneCR,
   Flatten(<<LineA>>) \o LineNull,
   Flatten(<<LineNumber>>) \o LineEmptyObj}

\* i malformed lines, a line x, j malformed lines, a last part y.
BadRunPayloads ==
  {Flatten(Repeat(LineBad, i)) \o x \o Flatten(Repeat(LineBad, j)) \o y :
     i \in 0..MaxBadRun, j \in 0..1,
     x \in {<<>>, Flatten(<<LineComment>>), Flatten(<<LineEmptyObj>>)},
     y \in {<<>>, Flatten(<<LineB>>), LineBad}}

Payloads ==
  FreePayloads \cup {PayloadHi, PayloadAB} \cup OtherPayloads
    \cup BadRunPayloads

\* ---------------------------------------------------------- decoder actions
InitSSE ==
  /\ request \in {[messages |-> <<UserMsg>>, tools |-> {}]}
  /\ messages = request.messages
  /\ toolMessages = <<>>
  /\ round = 0
  /\ pending = <<>>
  /\ pc = "idle"
  /\ calls = <<>>
  /\ trace = <<>>
  /\ result = None
  /\ received = <<>>
  /\ emitted = 0
  /\ ApiIdle
  /\ AppIdle
  /\ payload \in Payloads
  /\ pos = 0
  /\ buffer = <<>>
  /\ lines = <<>>
  /\ consecutiveParseFailures = 0
  /\ out = <<>>
  /\ dpc = "start"
  /\ locked = FALSE
  /\ splitDelivery = FALSE

\* The generator resumes the line loop (part_006:34) with the lines ls and
\* runs to its next suspension point or to its end; the finally block
\* (part_006:96-98) releases the reader on return and on throw.
Continue(ls) ==
  LET r == RunLines(ls, consecutiveParseFailures) IN
  /\ consecutiveParseFailures' = r.failures
  /\ lines' = r.rest
  /\ out' = IF r.status = "yield" THEN Append(out, r.token) ELSE out
  /\ dpc' = CASE r.status = "read" -> "reading"
              [] r.status = "yield" -> "yielded"
              [] OTHER -> r.status
  /\ locked' = (r.status \in {"read", "yield"})

\* part_006:32  buffer = lines.pop() ?? "": the text after the last line
\* feed stays in the buffer.
PopLastDropped(segs) == <<>>
PopLast(segs) == segs[Len(segs)]

\* part_006:17  first next(): getReader, then the first reader.read().
Start ==
  /\ dpc = "start"
  /\ dpc' = "reading"
  /\ locked' = TRUE
  /\ UNCHANGED <<payload, pos, buffer, lines, consecutiveParseFailures, out,
                 splitDelivery>>
  /\ UNCHANGED <<orchVars, apiVars, appVars>>

\* part_006:24-33  reader.read() resolves with the next k characters.
ReadChunk(k) ==
  /\ dpc = "reading"
  /\ pos + k <= Len(payload)
  /\ LET segs == Split(buffer \o SubSeq(payload, pos + 1, pos + k)) IN
     /\ buffer' = PopLast(segs)
     /\ Continue(SubSeq(segs, 1, Len(segs) - 1))
  /\ pos' = pos + k
  /\ splitDelivery' = (splitDelivery \/ pos + k < Len(payload))
  /\ UNCHANGED payload
  /\ UNCHANGED <<orchVars, apiVars, appVars>>

\* part_006:25,78-98  reader.read() resolves with done.
ReadDone ==
  /\ dpc = "reading"
  /\ pos = Len(payload)
  /\ LET token == ProcessTail(buffer) IN
     IF token # Undefined
       THEN /\ out' = Append(out, token)
            /\ dpc' = "yieldedTail"
            /\ locked' = locked
       ELSE /\ out' = out
            /\ dpc' = "done"
            /\ locked' = FALSE
  /\ UNCHANGED <<payload, pos, buffer, lines, consecutiveParseFailures,
                 splitDelivery>>
  /\ UNCHANGED <<orchVars, apiVars, appVars>>

\* part_006:24,96-98  reader.read() rejects.
ReadFails ==
  /\ dpc = "reading"
  /\ dpc' = "readError"
  /\ locked' = FALSE
  /\ UNCHANGED <<payload, pos, buffer, lines, consecutiveParseFailures, out,
                 splitDelivery>>
  /\ UNCHANGED <<orchVars, apiVars, appVars>>

\* A generator that goes back to the source after a yield, the rest of the
\* chunk's lines still waiting.
ResumeReadsAhead ==
  /\ dpc = "yielded"
  /\ dpc' = "reading"
  /\ UNCHANGED <<payload, pos, buffer, lines, consecutiveParseFailures, out,
                 locked, splitDelivery>>
  /\ UNCHANGED <<orchVars, apiVars, appVars>>

\* The consumer asks for the next token after a yield in the line loop
\* (part_006:72).
Resume ==
  /\ dpc = "yielded"
  /\ Continue(lines)
  /\ UNCHANGED <<payload, pos, buffer, splitDelivery>>
  /\ UNCHANGED <<orchVars, apiVars, appVars>>

\* The consumer asks for the next token after the yield of the residual
\* line (part_006:86).
ResumeTail ==
  /\ dpc = "yieldedTail"
  /\ dpc' = "done"
  /\ locked' = FALSE
  /\ UNCHANGED <<payload, pos, buffer, lines, consecutiveParseFailures, out,
                 splitDelivery>>
  /\ UNCHANGED <<orchVars, apiVars, appVars>>

\* An early exit of the consumer that skips the finally block.
AbandonKeepsReader ==
  /\ dpc \in {"yielded", "yieldedTail"}
  /\ dpc' = "abandoned"
  /\ locked' = locked
  /\ UNCHANGED <<payload, pos, buffer, lines, consecutiveParseFailures, out,
                 splitDelivery>>
  /\ UNCHANGED <<orchVars, apiVars, appVars>>

\* The consumer leaves its for-await loop at a yield: return() runs the
\* finally block (part_006:96-98).
Abandon ==
  /\ dpc \in {"yielded", "yieldedTail"}
  /\ dpc' = "abandoned"
  /\ locked' = FALSE
  /\ UNCHANGED <<payload, pos, buffer, lines, consecutiveParseFailures, out,
                 splitDelivery>>
  /\ UNCHANGED <<orchVars, apiVars, appVars>>

\* Sizes of the next chunk when rest characters remain.
ChunkSizes(rest) ==
  IF payload \in {PayloadHi, PayloadAB} \/ rest <= MaxChunk THEN 1..rest
  ELSE (1..MaxChunk) \cup {rest}

NextSSE ==
  \/ Start
  \/ \E k \in ChunkSizes(Len(payload) - pos) : ReadChunk(k)
  \/ ReadDone
  \/ ReadFails
  \/ Resume
  \/ ResumeTail
  \/ Abandon

SpecSSE == InitSSE /\ [][NextSSE]_vars

\* The run of the decoder on the payload p delivered as one chunk: the
\* tokens it yields and how it ends.
RECURSIVE Drain(_, _, _)
Drain(ls, failures, acc) ==
  LET r == RunLines(ls, failures) IN
  IF r.status = "yield" THEN Drain(r.rest, r.failures, Append(acc, r.token))
  ELSE [tokens |-> acc, status |-> r.status]

OneChunk(p) ==
  IF p = <<>> THEN [tokens |-> <<>>, status |-> "done"]
  ELSE LET segs == Split(p)
           d == Drain(SubSeq(segs, 1, Len(segs) - 1), 0, <<>>) IN
       IF d.status # "read" THEN d
       ELSE LET token == ProcessTail(segs[Len(segs)]) IN
            [tokens |-> IF token # Undefined THEN Append(d.tokens, token)
                        ELSE d.tokens,
             status |-> "done"]

TypeOK ==
  /\ pc \in {"deciding", "awaitDecision", "executing", "finalizing",
             "awaitStream", "done", "error"}
  /\ round \in 0..maxRounds
\* ======================================================= transport client
\* api.ts:14-19  DEFAULT_URLS
DEFAULT_URLS ==
  [ollama |-> "http://localhost:11434", lmstudio |-> "http://localhost:1234",
   llamacpp |-> "http://localhost:8080", custom |-> ""]

\* api.ts:21-26  PROVIDER_NAMES
PROVIDER_NAMES ==
  [ollama |-> "Ollama", lmstudio |-> "LM Studio", llamacpp |-> "llama.cpp",
   custom |-> "Custom server"]

\* types.ts  ProviderType
ProviderTypes == {"ollama", "lmstudio", "llamacpp", "custom"}

\* api.ts:47-62  getProviderConfig: the stored or preferred URL, or the
\* built-in default of the provider (api.ts:32-41).
Configs ==
  UNION {{[type |-> t, baseUrl |-> u] :
            u \in {DEFAULT_URLS[t], "http://10.0.0.5:9000"}} :
         t \in ProviderTypes}

\* A JavaScript value that was thrown: its class, its name, its message as
\* a sequence of text pieces, and the code of its cause (None when absent).
Thrown(cls, name, message, code) ==
  [cls |-> cls, name |-> name, message |-> message, code |-> code]

\* new Error(message)
NewError(message) == Thrown("Error", "Error", message, None)

\* err instanceof Error
IsError(err) == err.cls \in {"Error", "TypeError", "SyntaxError", "DOMException"}

\* String.prototype.includes, by text piece; every text includes "".
Includes(message, piece) ==
  piece = "" \/ \E i \in DOMAIN message : message[i] = piece

\* api.ts:70-72, 77-79
TimeoutMessage(name, baseUrl) ==
  <<"Server took too long to respond. Check that ", name, " is running at ",
    baseUrl, ".">>

\* api.ts:100-102
NotRunningMessage(name, baseUrl) ==
  <<"Server not running at ", baseUrl, ". Start your ", name,
    " server and try again.">>

\* api.ts:105-107
CannotConnectMessage(name, baseUrl) ==
  <<"Cannot connect to ", name, " at ", baseUrl, " - is it running?">>

\* api.ts:65-115  translateFetchError.
translateFetchError(err, cfg) ==
  LET name == PROVIDER_NAMES[cfg.type] IN
  IF err.cls = "DOMException" /\ err.name = "TimeoutError"
    THEN NewError(TimeoutMessage(name, cfg.baseUrl))
  ELSE IF IsError(err) /\ err.name = "AbortError"
    THEN NewError(TimeoutMessage(name, cfg.baseUrl))
  ELSE IF err.cls = "TypeError" \/ (IsError(err) /\ Includes(err.message, "fetch"))
    THEN IF err.code = "ECONNREFUSED"
              \/ (IsError(err) /\ Includes(err.message, "ECONNREFUSED"))
           THEN NewError(NotRunningMessage(name, cfg.baseUrl))
           ELSE NewError(CannotConnectMessage(name, cfg.baseUrl))
  ELSE IF IsError(err) THEN err
  ELSE NewError(err.message)

\* Rejections of fetch, each with what made it fail: the timeout signal
\* (api.ts:276, 339), a refused connection, an unreachable network or
\* unknown host, and a base URL that is not a URL.
TimeoutErrors ==
  {Thrown("DOMException", "TimeoutError",
          <<"The operation was aborted due to timeout">>, None),
   Thrown("DOMException", "AbortError", <<"This operation was aborted">>, None)}

FetchFailures(cfg, fn) ==
  (IF fn = "sendChatStream" THEN {}
   ELSE {[cause |-> "timeout", err |-> e] : e \in TimeoutErrors})
  \cup {[cause |-> "refused",
         err |-> Thrown("TypeError", "TypeError", <<"fetch", " failed">>,
                        "ECONNREFUSED")]}
  \cup {[cause |-> "unreachable",
         err |-> Thrown("TypeError", "TypeError", <<"fetch", " failed">>, c)] :
          c \in {"ENOTFOUND", "ENETUNREACH"}}
  \cup (IF cfg.baseUrl = ""
          THEN {[cause |-> "unexpected",
                 err |-> Thrown("TypeError", "TypeError",
                                <<"Failed to parse URL from ",
                                  "/v1/chat/completions">>, "ERR_INVALID_URL")]}
          ELSE {})

\* Rejections of res.json() (api.ts:281, 344): a body that is not JSON, a
\* body that cannot be read, a value that is not an Error.
JsonFailures ==
  {[cause |-> "unexpected",
    err |-> Thrown("SyntaxError", "SyntaxError",
                   <<"Unexpected token < in JSON at position 0">>, None)],
   [cause |-> "unexpected",
    err |-> Thrown("TypeError", "TypeError", <<"Body is unusable">>, None)],
   [cause |-> "unexpected",
    err |-> Thrown("string", None, <<"boom">>, None)]}

\* api.ts:279, 305, 342
StatusError(status) == NewError(<<"Server returned ", status>>)

\* api.ts:308-310
EmptyBodyError ==
  NewError(<<"Response body is empty - streaming not supported by server">>)

Statuses == {"200 OK", "404 Not Found", "500 Internal Server Error"}

\* Response.ok
Ok(status) == status = "200 OK"

\* ---------------------------------------------------------- request inputs
ImagePaths == {"/tmp/a.png", "/tmp/b.png"}

ImageMsg(role, content, images) ==
  [role |-> role, content |-> content, images |-> images]

\* Message lists handed to the transport functions (part_001:472-508):
\* without images, with an empty image list, with one or two images, with
\* and without text beside the images.
ApiMessages ==
  {<<UserMsg>>,
   <<SystemMsg, ImageMsg("user", "hello", <<>>)>>,
   <<SystemMsg, ImageMsg("user", "what is this", <<"/tmp/a.png">>)>>,
   <<ImageMsg("user", "", <<"/tmp/a.png", "/tmp/b.png">>)>>,
   <<SystemMsg, ImageMsg("user", "compare", <<"/tmp/b.png", "/tmp/a.png">>),
     Msg("assistant", "", <<ToolCall("call_a", "web_search", ArgQuery)>>, None),
     Msg("tool", "", <<>>, "call_a"),
     ImageMsg("user", "and this", <<"/tmp/a.png">>)>>}

ApiFunctions == {"sendChat", "sendChatWithTools", "sendChatStream"}

\* No runWithTools turn is being followed.
OrchestratorIdle ==
  /\ request = [messages |-> <<UserMsg>>, tools |-> {}]
  /\ messages = request.messages
  /\ toolMessages = <<>>
  /\ round = 0
  /\ pending = <<>>
  /\ pc = "idle"
  /\ calls = <<>>
  /\ trace = <<>>
  /\ result = None
  /\ received = <<>>
  /\ emitted = 0

InitApi ==
  /\ OrchestratorIdle
  /\ DecoderIdle
  /\ AppIdle
  /\ config \in Configs
  /\ apiFn \in ApiFunctions
  /\ apiRequest \in [messages : ApiMessages, tools : {{}}]
  /\ readable \in SUBSET ImagePaths
  /\ apiBody = NoBody
  /\ apiPc = "called"
  /\ raised = None
  /\ cause = None
  /\ thrown = None

\* The catch block of a transport function (api.ts:282-284, 313-315,
\* 345-347): err was raised inside the try, its translation is thrown.
Catch(why, err) ==
  /\ raised' = err
  /\ cause' = why
  /\ thrown' = translateFetchError(err, config)
  /\ apiPc' = "rejected"

\* api.ts:268-277, 295-303, 330-340  the body is built and fetch is called.
SendRequest ==
  /\ apiPc = "called"
  /\ apiBody' = CASE apiFn = "sendChat" -> sendChatBody(apiRequest)
                  [] apiFn = "sendChatStream" -> sendChatStreamBody(apiRequest)
                  [] OTHER -> sendChatWithToolsBody(apiRequest, BUILT_IN_TOOLS)
  /\ apiPc' = "fetching"
  /\ UNCHANGED <<config, apiFn, apiRequest, readable, raised, cause, thrown>>
  /\ UNCHANGED <<orchVars, decVars, appVars>>

\* fetch rejects.
FetchRejects(f) ==
  /\ apiPc = "fetching"
  /\ Catch(f.cause, f.err)
  /\ UNCHANGED <<config, apiFn, apiRequest, readable, apiBody>>
  /\ UNCHANGED <<orchVars, decVars, appVars>>

\* api.ts:278-281, 304-312, 341-344  fetch resolves with a response.
FetchResponds(status, hasBody) ==
  /\ apiPc = "fetching"
  /\ IF ~Ok(status) THEN Catch("http", StatusError(status))
     ELSE IF apiFn = "sendChatStream"
       THEN IF ~hasBody THEN Catch("emptyBody", EmptyBodyError)
            ELSE /\ apiPc' = "resolved"
                 /\ UNCHANGED <<raised, cause, thrown>>
     ELSE /\ apiPc' = "parsing"
          /\ UNCHANGED <<raised, cause, thrown>>
  /\ UNCHANGED <<config, apiFn, apiRequest, readable, apiBody>>
  /\ UNCHANGED <<orchVars, decVars, appVars>>

\* api.ts:281, 344  res.json() resolves.
JsonResolves ==
  /\ apiPc = "parsing"
  /\ apiPc' = "resolved"
  /\ UNCHANGED <<config, apiFn, apiRequest, readable, apiBody, raised, cause,
                 thrown>>
  /\ UNCHANGED <<orchVars, decVars, appVars>>

\* api.ts:281, 344  res.json() rejects.
JsonRejects(f) ==
  /\ apiPc = "parsing"
  /\ Catch(f.cause, f.err)
  /\ UNCHANGED <<config, apiFn, apiRequest, readable, apiBody>>
  /\ UNCHANGED <<orchVars, decVars, appVars>>

NextApi ==
  \/ SendRequest
  \/ \E f \in FetchFailures(config, apiFn) : FetchRejects(f)
  \/ \E status \in Statuses, hasBody \in BOOLEAN : FetchResponds(status, hasBody)
  \/ JsonResolves
  \/ \E f \in JsonFailures : JsonRejects(f)

SpecApi == InitApi /\ [][NextApi]_vars

\* ================================================================= claims
\* ------------------------------------------------------------ orchestrator
NumCalls(kind) == Cardinality({i \in DOMAIN calls : calls[i].kind = kind})

\* A decision response that requests tool calls: finish_reason "tool_calls"
\* with at least one record.
RequestsTools(choices) ==
  /\ Len(choices) > 0
  /\ choices[1].finish_reason = "tool_calls"
  /\ Len(choices[1].message.tool_calls) > 0

NormalCompletion(choices) ==
  /\ Len(choices) > 0
  /\ choices[1].finish_reason = "stop"

\* A message list with the text of every tool result blanked.
Skeleton(msgs) ==
  [i \in DOMAIN msgs |->
     IF msgs[i].role = "tool" THEN [msgs[i] EXCEPT !.content = "result"]
     ELSE msgs[i]]

\* The assistant message of a round and one tool message per record.
RoundSkeleton(choices) ==
  LET m == choices[1].message IN
  <<Msg("assistant", m.content, m.tool_calls, None)>>
    \o [j \in DOMAIN m.tool_calls |->
          Msg("tool", "result", <<>>, m.tool_calls[j].id)]

ScriptedThreeRounds ==
  /\ Len(received) >= 3
  /\ RequestsTools(received[1])
  /\ RequestsTools(received[2])
  /\ NormalCompletion(received[3])

\* C1: when decision responses 1 and 2 request tool calls and decision
\* response 3 is a normal completion, exactly 3 with-tools calls are issued,
\* then exactly 1 streaming call, and the message list of the streaming call
\* is the original messages, then the round-1 assistant message and its tool
\* messages, then those of round 2.
C1_ThreeDecisionsThenFinalization ==
  ScriptedThreeRounds =>
    /\ NumCalls("tools") = 3
    /\ \A i \in 1..3 : calls[i].kind = "tools"
    /\ pc \in {"finalizing", "awaitStream", "done", "error"}
    /\ pc = "finalizing" => Len(calls) = 3
    /\ pc # "finalizing" =>
         /\ Len(calls) = 4
         /\ calls[4].kind = "stream"
         /\ Skeleton(calls[4].messages) =
              request.messages \o RoundSkeleton(received[1])
                \o RoundSkeleton(received[2])

C1_Witness ==
  /\ ScriptedThreeRounds
  /\ pc = "done"
  /\ Len(calls) = 4
  /\ Len(calls[4].messages) = Len(request.messages) + 5

\* C2: at most 3 with-tools calls are issued and the round counter never
\* decreases nor exceeds 3; when the third decision response still requests
\* tool calls, no fourth decision call follows: once its tools have run the
\* orchestrator is at the streaming call.
C2_RoundInv ==
  /\ round \in 0..3
  /\ \A i \in DOMAIN calls : calls[i].kind = "tools" => i <= 3
  /\ (Len(received) = 3 /\ RequestsTools(received[3]) /\ pending = <<>>) =>
       /\ round = 3
       /\ pc \in {"finalizing", "awaitStream", "done", "error"}
       /\ pc # "finalizing" => (Len(calls) = 4 /\ calls[4].kind = "stream")

C2_BoundedRounds == [](C2_RoundInv) /\ [][round' >= round]_vars

C2_Witness ==
  /\ Len(received) = 3
  /\ RequestsTools(received[3])
  /\ pc = "done"
  /\ NumCalls("stream") = 1

\* C3: every request sent by the streaming call carries no tool
\* declarations, whatever request object the caller passed in.
C3_FinalizationCarriesNoTools ==
  \A i \in DOMAIN calls : calls[i].kind = "stream" => calls[i].tools = {}

\* C7: executeTool returns a text result and never raises, so no tool
\* execution aborts runWithTools.
C7_ExecuteToolNeverRaises ==
  \A i \in DOMAIN trace : trace[i] # "tool_threw"

\* Error strings of executeTool for an undecodable argument payload.
InvalidJsonMsgs == {InvalidJsonMsg(n) : n \in ToolNames}

Undecodable(tc) == ~JSONParseArgs(tc.arguments).ok

\* C8: executing a tool-call record whose argument payload cannot be decoded
\* appends a tool message with an error string and the record's id and does
\* not abort: the loop goes on with the next record of the round, or, after
\* the last record, with the next round of the loop (the next decision call,
\* or the streaming call when the round was the third).
C8_UndecodableArgsStep ==
  (pc = "executing" /\ pending # <<>> /\ Undecodable(Head(pending))) =>
    /\ Len(messages') = Len(messages) + 1
    /\ SubSeq(messages', 1, Len(messages)) = messages
    /\ messages'[Len(messages')].role = "tool"
    /\ messages'[Len(messages')].tool_call_id = Head(pending).id
    /\ messages'[Len(messages')].content \in InvalidJsonMsgs
    /\ toolMessages' = Append(toolMessages, messages'[Len(messages')])
    /\ pending' = Tail(pending)
    /\ pc' = IF Tail(pending) # <<>> THEN "executing"
             ELSE IF round < 2 THEN "deciding" ELSE "finalizing"

C8_UndecodableArgsContinue == [][C8_UndecodableArgsStep]_vars

\* An undecodable record was answered, the next record of its round ran and
\* a later decision call was issued.
C8_Witness ==
  /\ Len(calls) >= 2
  /\ \E i \in DOMAIN messages :
       /\ messages[i].role = "tool"
       /\ messages[i].content \in InvalidJsonMsgs
       /\ i < Len(messages)
       /\ messages[i + 1].role = "tool"
       /\ \E c \in DOMAIN calls : Len(calls[c].messages) > i

\* The messages of a call after the caller's original messages.
Synthesized(c) ==
  SubSeq(c.messages, Len(request.messages) + 1, Len(c.messages))

WellGrouped(s) ==
  /\ \A i \in DOMAIN s :
       (s[i].role = "assistant" /\ s[i].tool_calls # <<>>) =>
         LET n == Len(s[i].tool_calls) IN
         /\ i + n <= Len(s)
         /\ \A j \in 1..n :
              /\ s[i + j].role = "tool"
              /\ s[i + j].tool_call_id = s[i].tool_calls[j].id
         /\ i + n + 1 <= Len(s) => s[i + n + 1].role # "tool"
  /\ \A i \in DOMAIN s :
       s[i].role = "tool" =>
         \E k \in 1..(i - 1) :
           /\ s[k].role = "assistant"
           /\ \A j \in (k + 1)..i : s[j].role = "tool"
           /\ i - k <= Len(s[k].tool_calls)
           /\ s[i].tool_call_id = s[k].tool_calls[i - k].id

\* C9: in the message list of every transport call, each synthesized
\* assistant message with tool-call records is followed at once by exactly
\* one tool message per record, in the records' order and with the record's
\* id, and every synthesized tool message answers a record of the nearest
\* preceding assistant message.
C9_ToolMessagesFollowTheirCalls ==
  \A c \in DOMAIN calls : WellGrouped(Synthesized(calls[c]))

C9_Witness ==
  \E c \in DOMAIN calls :
    \E i \in DOMAIN calls[c].messages :
      /\ Len(calls[c].messages[i].tool_calls) = 2
      /\ calls[c].kind = "stream"

\* C10: a failed decision call or streaming call ends the turn at once: the
\* failure is the last event of the turn (no further call, no tool
\* execution, no retry) and no stream is returned.
C10_TransportFailurePropagates ==
  \A i \in DOMAIN trace :
    trace[i] \in {"decision_error", "stream_error"} =>
      /\ i = Len(trace)
      /\ pc = "error"
      /\ result = None
      /\ trace[i - 1] \in {"decision_call", "stream_call"}

C10_Witness ==
  /\ pc = "error"
  /\ trace[Len(trace)] = "decision_error"
  /\ Len(calls) = 2
  /\ Len(toolMessages) > 0

\* ------------------------------------------------------------------ decoder
StrA == JStr(<<"A">>)
StrB == JStr(<<"B">>)
StrHi == JStr(<<"H", "i">>)

\* The generator ended by itself: return, or one of its two errors.
Ended == dpc \in {"done", "malformed", "typeError"}

\* C4: a payload delivered in chunks split at any offsets yields the same
\* tokens in the same order, and ends the same way, as the payload delivered
\* as one chunk; the lines carrying "A", "B" and [DONE] yield A then B.
C4_ChunkBoundaryInvariance ==
  Ended =>
    /\ [tokens |-> out, status |-> dpc] = OneChunk(payload)
    /\ payload = PayloadAB => (out = <<StrA, StrB>> /\ dpc = "done")

C4_Witness ==
  /\ payload = PayloadAB
  /\ splitDelivery
  /\ dpc = "done"
  /\ out = <<StrA, StrB>>

\* C5: the stream of the data line with content "Hi", a blank line, the data
\* line [DONE] and a blank line yields the single token "Hi" and then ends
\* normally.
C5_LiteralRoundTrip ==
  payload = PayloadHi =>
    /\ out \in {<<>>, <<StrHi>>}
    /\ dpc \notin {"malformed", "typeError", "yieldedTail"}
    /\ (dpc = "reading" /\ out = <<>>) => pos < Len(LineHi) + 1
    /\ dpc = "done" => out = <<StrHi>>

C5_Witness ==
  /\ payload = PayloadHi
  /\ dpc = "done"
  /\ out = <<StrHi>>

\* Complete lines delivered so far, and those the line loop has gone through.
DeliveredLines ==
  LET segs == Split(SubSeq(payload, 1, pos)) IN SubSeq(segs, 1, Len(segs) - 1)

Processed == SubSeq(DeliveredLines, 1, Len(DeliveredLines) - Len(lines))

IsDataLine(l) == StartsWith(Trim(l), DataMarker)
DataPayload(l) == Trim(Slice(Trim(l), Len(DataMarker)))
DecodeFails(l) ==
  IsDataLine(l) /\ DataPayload(l) # DoneSentinel /\ ~JSONParse(DataPayload(l)).ok
Decodes(l) ==
  IsDataLine(l) /\ DataPayload(l) # DoneSentinel /\ JSONParse(DataPayload(l)).ok

\* Number of data lines that fail to decode since the last one that decoded.
RECURSIVE TrailingFailures(_)
TrailingFailures(ls) ==
  IF ls = <<>> THEN 0
  ELSE LET front == SubSeq(ls, 1, Len(ls) - 1) IN
       IF DecodeFails(ls[Len(ls)]) THEN 1 + TrailingFailures(front)
       ELSE IF Decodes(ls[Len(ls)]) THEN 0
       ELSE TrailingFailures(front)

\* The non-empty contents of the lines that decode, in line order.
RECURSIVE TokensOf(_)
TokensOf(ls) ==
  IF ls = <<>> THEN <<>>
  ELSE LET l == Head(ls) IN
       IF Decodes(l) /\ JSONParse(DataPayload(l)).v # JNull
          /\ Truthy(DeltaContent(JSONParse(DataPayload(l)).v))
         THEN <<DeltaContent(JSONParse(DataPayload(l)).v)>> \o TokensOf(Tail(ls))
         ELSE TokensOf(Tail(ls))

C6_Inv ==
  /\ dpc \in {"reading", "yielded"} =>
       /\ consecutiveParseFailures = TrailingFailures(Processed)
       /\ consecutiveParseFailures < 5
       /\ out = TokensOf(Processed)
  /\ dpc = "malformed" <=> consecutiveParseFailures = 5
  /\ consecutiveParseFailures <= 5

\* C6: in the line loop a data line that fails to decode is skipped and
\* decoding goes on while fewer than 5 such lines came in a row (a line that
\* decodes resets the count, and the lines that decode still yield their
\* tokens); the 5th in a row raises the malformed-stream error, with no
\* token yielded in that step or after it.
C6_MalformedThreshold ==
  [](C6_Inv) /\ [][dpc' = "malformed" => out' = out]_vars

C6_Witness ==
  /\ dpc = "malformed"
  /\ consecutiveParseFailures = 5
  /\ payload = Flatten(Repeat(LineBad, 5)) \o Flatten(<<LineB>>)
  /\ pos = Len(payload)
  /\ out = <<>>

\* The positions at which the generator has finished: return, the two errors
\* of the line loop, a failed read, and the consumer's early exit.
Terminal == {"done", "malformed", "typeError", "readError", "abandoned"}

\* C11: from getReader on the decoder holds the reader of its source while
\* it is suspended at a read or at a yield, and in every terminal state (end
\* by the [DONE] sentinel, source exhausted, malformed-stream error, failed
\* read, consumer gone early) the reader has been released.
C11_ReaderReleasedOnEveryExit ==
  /\ dpc \in Terminal => ~locked
  /\ dpc \in {"reading", "yielded", "yieldedTail"} => locked

C11_Witness ==
  /\ dpc = "abandoned"
  /\ out # <<>>
  /\ pos < Len(payload)
  /\ ~locked

\* A data line whose payload is exactly [DONE].
IsSentinelLine(l) ==
  IsDataLine(l) /\ DataPayload(l) = <<"[", "D", "O", "N", "E", "]">>

\* Index of the first sentinel line of ls, 0 when there is none.
FirstSentinel(ls) ==
  LET at == {i \in 1..Len(ls) : IsSentinelLine(ls[i])} IN
  IF at = {} THEN 0 ELSE CHOOSE i \in at : \A j \in at : i <= j

C12_Inv ==
  LET s == FirstSentinel(DeliveredLines) IN
  (dpc = "done" /\ s > 0) =>
    out = TokensOf(SubSeq(DeliveredLines, 1, s - 1))

\* C12: once the line loop has met a data line whose payload is exactly
\* [DONE] the decoder is finished: the tokens it has yielded are those of
\* the lines before that line, none comes from a later line of the chunk,
\* from a later chunk or from the residual buffer, and the source is not
\* read again.
C12_SentinelStops ==
  [](C12_Inv)
    /\ [][dpc = "done" => (dpc' = "done" /\ out' = out /\ pos' = pos)]_vars

C12_Witness ==
  /\ payload = Flatten(<<LineDone, LineA>>) \o LineB
  /\ pos = Len(payload)
  /\ buffer = LineB
  /\ dpc = "done"
  /\ out = <<>>

\* The text after the last line feed of the payload p is a non-empty data
\* line that is not the sentinel.
ResidualIsDataLine(p) ==
  LET segs == Split(p)
      last == segs[Len(segs)] IN
  IsDataLine(last) /\ ~IsSentinelLine(last)

\* C17: when the source is exhausted with a data line left in the residual
\* buffer, the decoder ends as it does on the same payload with that line
\* terminated: the same tokens, and the malformed-stream error when the line
\* is the 5th in a row that fails to decode.
C17_ResidualDecodedLikeALine ==
  (Ended /\ pos = Len(payload) /\ ResidualIsDataLine(payload)) =>
    [tokens |-> out, status |-> dpc] = OneChunk(Append(payload, "\n"))

\* A non-empty text fragment.
IsText(v) == v[1] = "str" /\ v[2] # <<>>

\* C20: every token yielded is a non-empty text fragment, and the tokens
\* yielded so far are the first-choice delta contents of the data lines gone
\* through that carry one, one token per line, in line order; lines that are
\* empty, comments, without the data marker, or without content add nothing.
C20_TokensAreTextOfDataLines ==
  /\ \A i \in 1..Len(out) : IsText(out[i])
  /\ dpc \in {"reading", "yielded"} => out = TokensOf(Processed)

\* ------------------------------------------------- orchestrator, continued
\* Number of events of the turn that belong to the set events.
Count(events) == Cardinality({i \in DOMAIN trace : trace[i] \in events})

\* Transport calls sent and not yet settled.
InFlight ==
  Count({"decision_call", "stream_call"})
    - Count({"decision_ok", "no_choice_error", "decision_error", "stream_ok",
             "stream_error"})

\* Index in toolMessages of the assistant message of the latest round that
\* requested tools, 0 when there is none.
LastAssistant ==
  LET at == {i \in DOMAIN toolMessages : toolMessages[i].role = "assistant"} IN
  IF at = {} THEN 0 ELSE CHOOSE i \in at : \A j \in at : j <= i

C15_Inv ==
  /\ InFlight \in {0, 1}
  /\ pc = "executing" => InFlight = 0
  /\ LastAssistant > 0 =>
       LET listed == toolMessages[LastAssistant].tool_calls
           n == Len(toolMessages) - LastAssistant IN
       /\ n <= Len(listed)
       /\ \A k \in 1..n :
            toolMessages[LastAssistant + k].tool_call_id = listed[k].id
       /\ pc = "executing" => pending = SubSeq(listed, n + 1, Len(listed))

C15_Step ==
  /\ Len(calls') > Len(calls) => (InFlight = 0 /\ pending = <<>>)
  /\ (Len(trace') > Len(trace)
        /\ trace'[Len(trace')] \in {"tool_executed", "tool_threw"}) =>
       /\ InFlight = 0
       /\ pending # <<>>
       /\ pending' \in {pending, Tail(pending)}

\* C15: during a turn at most one transport call is in flight, a transport
\* call is sent only when none is in flight and no listed tool call is left
\* to execute, a tool executes only when no transport call is in flight, and
\* the tool calls of a round execute one per step in the order the server
\* listed them.
C15_SingleFlow == [](C15_Inv) /\ [][C15_Step]_vars

C15_Witness ==
  /\ Len(toolMessages) = 3
  /\ Len(toolMessages[1].tool_calls) = 2
  /\ toolMessages[2].tool_call_id = "call_a"
  /\ toolMessages[3].tool_call_id = "call_b"
  /\ pc = "awaitDecision"
  /\ InFlight = 1

\* The assistant messages synthesized from the decision responses rs, in
\* order: one per response that requests tools.
RECURSIVE AssistantMsgsOf(_)
AssistantMsgsOf(rs) ==
  IF rs = <<>> THEN <<>>
  ELSE LET rest == AssistantMsgsOf(Tail(rs)) IN
       IF RequestsTools(Head(rs))
         THEN <<Msg("assistant", Head(rs)[1].message.content,
                    Head(rs)[1].message.tool_calls, None)>> \o rest
         ELSE rest

\* The messages of s whose role is role, in order.
RECURSIVE Select(_, _)
Select(s, role) ==
  IF s = <<>> THEN <<>>
  ELSE IF Head(s).role = role THEN <<Head(s)>> \o Select(Tail(s), role)
  ELSE Select(Tail(s), role)

IsPrefix(s, t) == Len(s) <= Len(t) /\ s = SubSeq(t, 1, Len(s))

C16_Inv ==
  /\ messages = request.messages \o toolMessages
  /\ \A i \in DOMAIN toolMessages : toolMessages[i].role \in {"assistant", "tool"}
  /\ Select(toolMessages, "assistant") = AssistantMsgsOf(received)
  /\ Len(Select(toolMessages, "tool")) = Count({"tool_executed"})
  /\ \A c \in DOMAIN calls :
       /\ IsPrefix(request.messages, calls[c].messages)
       /\ IsPrefix(Synthesized(calls[c]), toolMessages)
       /\ calls[c].kind = "stream" =>
            calls[c].messages = request.messages \o toolMessages

C16_Step ==
  /\ IsPrefix(toolMessages, toolMessages')
  /\ IsPrefix(messages, messages')
  /\ request' = request
  /\ Len(calls') > Len(calls) =>
       calls'[Len(calls')].messages = request.messages \o toolMessages

\* C16: the returned toolMessages list holds exactly the assistant and tool
\* messages synthesized during the loop, in the order produced; the message
\* list of every transport call is the caller's messages followed by the
\* synthesized messages produced so far, the finalization call carrying the
\* whole list, third-round messages included; the lists only grow at the end.
C16_MessagesAccumulate == [](C16_Inv) /\ [][C16_Step]_vars

C16_Witness ==
  /\ result = "stream"
  /\ round = maxRounds
  /\ Len(toolMessages) = 6
  /\ Len(calls) = 4
  /\ calls[4].messages = request.messages \o toolMessages

\* --------------------------------------------------------- transport client
\* The failure kinds the transport client classifies.
ClassifiedKinds == {"timeout", "refused", "unreachable", "http", "emptyBody"}

\* C13: a failure of a transport function for a timeout or cancellation, a
\* refused connection, an unreachable network or unknown host, a non-success
\* HTTP status, or an empty body where a stream was expected, is thrown with
\* a message that contains the configured base URL and the provider's name.
C13_ClassifiedFailuresNameEndpoint ==
  (apiPc = "rejected" /\ cause \in ClassifiedKinds) =>
    /\ Includes(thrown.message, config.baseUrl)
    /\ Includes(thrown.message, PROVIDER_NAMES[config.type])

\* C14: an error raised during an exchange for anything but a timeout or
\* cancellation, a refused connection or an unreachable network reaches the
\* caller unchanged, with its original message.
C14_OtherErrorsPassThrough ==
  (apiPc = "rejected" /\ cause \notin {"timeout", "refused", "unreachable"}) =>
    /\ thrown.message = raised.message
    /\ IsError(raised) => thrown = raised

\* The request's messages and the messages of the body sent.
Given == apiRequest.messages
Sent == apiBody.messages

\* C18: the body carries the request's messages unchanged when none of them
\* has images; when some have, it carries as many messages, in the same
\* order of roles, and every message without images unchanged.
C18_ImagelessMessagesUnchanged ==
  apiBody.kind # None =>
    /\ (\A i \in DOMAIN Given : ~HasImages(Given[i])) => Sent = Given
    /\ Len(Sent) = Len(Given)
    /\ \A i \in DOMAIN Given :
         /\ Sent[i].role = Given[i].role
         /\ ~HasImages(Given[i]) => Sent[i] = Given[i]

C18_Witness ==
  /\ apiBody.kind # None
  /\ Len(Given) = 5
  /\ HasImages(Given[2]) /\ HasImages(Given[5])
  /\ Sent[3] = Given[3] /\ Sent[3].tool_calls # <<>>
  /\ Sent[2] # Given[2]

\* The part of an image that was read.
Embedded(imgPath) ==
  [type |-> "image_url",
   image_url |-> [url |-> <<"data:image/png;base64,", <<"base64", imgPath>>>>]]

Placeholder == [type |-> "text", text |-> "[Image failed to load]"]

\* The parts list expected of the message msg.
PartsAsClaimed(msg, parts) ==
  LET n0 == IF msg.content # "" THEN 1 ELSE 0 IN
  /\ Len(parts) = n0 + Len(msg.images)
  /\ n0 = 1 => parts[1] = [type |-> "text", text |-> msg.content]
  /\ \A k \in DOMAIN msg.images :
       parts[n0 + k] = IF msg.images[k] \in readable
                         THEN Embedded(msg.images[k]) ELSE Placeholder

\* C19: in the body sent, a message with images has as content a parts list:
\* a text part first if and only if its content is not empty, then one part
\* per image reference in reference order, the embedded image when the file
\* is read and the placeholder text part when it is not; the body is built
\* whatever files cannot be read.
C19_ImagePartsWithPlaceholders ==
  /\ apiPc \notin {"idle", "called"} => apiBody.kind # None
  /\ apiBody.kind # None =>
       \A i \in DOMAIN Given :
         HasImages(Given[i]) =>
           /\ DOMAIN Sent[i] = {"role", "content"}
           /\ PartsAsClaimed(Given[i], Sent[i].content)

C19_Witness ==
  /\ apiBody.kind # None
  /\ readable = {"/tmp/a.png"}
  /\ Len(Given) = 5
  /\ Sent[2].content =
       <<[type |-> "text", text |-> "compare"], Placeholder,
         Embedded("/tmp/a.png")>>

\* ------------------------------------------------- orchestrator, decisions
\* The assistant message synthesized from the response choices.
AssistantOf(choices) ==
  Msg("assistant", choices[1].message.content, choices[1].message.tool_calls,
      None)

\* The response handled in this step, when a response is handled.
Handled == received'[Len(received')]

C21_Step ==
  /\ Len(received') > Len(received) =>
       IF RequestsTools(Handled)
         THEN /\ messages' = Append(messages, AssistantOf(Handled))
              /\ toolMessages' = Append(toolMessages, AssistantOf(Handled))
              /\ pending' = Handled[1].message.tool_calls
              /\ pc' = "executing"
         ELSE /\ messages' = messages
              /\ toolMessages' = toolMessages
              /\ pending' = <<>>
              /\ Handled # <<>> => pc' = "finalizing"
  /\ pc = "executing" => RequestsTools(received[Len(received)])
  /\ pc = "finalizing" =>
       (pc' = "awaitStream" /\ trace' = Append(trace, "stream_call"))

\* C21: a decision response makes runWithTools append an assistant message
\* and execute tools exactly when its finish_reason is "tool_calls" and it
\* has at least one tool-call record; a response with a choice that is
\* otherwise (normal completion, "tool_calls" without records, records with
\* another finish_reason) appends nothing, its text is kept nowhere, no tool
\* runs, and the next step is the finalization call.
C21_ToolRoundIffToolCalls == [][C21_Step]_vars

C21_Witness ==
  /\ Len(received) = 1
  /\ received[1] # <<>>
  /\ received[1][1].finish_reason = "stop"
  /\ received[1][1].message.tool_calls # <<>>
  /\ toolMessages = <<>>
  /\ messages = request.messages
  /\ pc = "awaitStream"

\* C22: when the turn completes, the list the caller handed over holds the
\* original messages followed by the synthesized messages of every round.
C22_CallerListMutatedInPlace ==
  result = "stream" => request.messages = calls[1].messages \o toolMessages

C28_Inv ==
  \A k \in DOMAIN received :
    received[k] = <<>> =>
      /\ k = Len(received)
      /\ pc = "error"
      /\ result = None
      /\ trace[Len(trace)] = "no_choice_error"
      /\ Len(calls) = k
      /\ calls[k].kind = "tools"

\* C28: a decision response without a choice raises an error at once: that
\* step appends no message, no tool runs, and no decision call and no
\* finalization call follows.
C28_NoChoiceRaises ==
  [](C28_Inv)
    /\ [][(Len(received') > Len(received) /\ Handled = <<>>) =>
            (messages' = messages /\ toolMessages' = toolMessages
               /\ pending' = pending /\ pc' = "error")]_vars

C28_Witness ==
  /\ Len(received) = 2
  /\ received[2] = <<>>
  /\ Len(toolMessages) = 2
  /\ pc = "error"

C26_Bounds ==
  /\ NumCalls("tools") <= 3
  /\ NumCalls("stream") <= 1
  /\ Count({"tool_executed", "tool_threw"}) <= emitted
  /\ pc = "done" =>
       (result = "stream" /\ Count({"tool_executed"}) = emitted)
  /\ pc = "error" => result = None

\* C26: when every transport call and every tool execution settles, every
\* run of runWithTools ends, by returning the finalization stream or by
\* raising an error, after at most 3 decision calls, one streaming call and
\* one execution per tool-call record received in a round that requests
\* tools.
C26_Terminates == <>(pc \in {"done", "error"}) /\ [](C26_Bounds)

C26_Witness ==
  /\ pc = "done"
  /\ result = "stream"
  /\ NumCalls("tools") = 3
  /\ NumCalls("stream") = 1
  /\ Count({"tool_executed"}) = 3
  /\ emitted = 3

\* ------------------------------------------------------ decoder, continued
C23_Inv ==
  dpc = "reading" =>
    /\ lines = <<>>
    /\ out = TokensOf(DeliveredLines)

C23_Step ==
  /\ pos' # pos => (dpc = "reading" /\ lines = <<>>)
  /\ Len(out') <= Len(out) + 1
  /\ Len(out') > Len(out) => dpc' \in {"yielded", "yieldedTail"}

\* C23: the decoder asks the source for a chunk only when the consumer has
\* taken every token of the complete lines received so far: while a read is
\* pending no line of an earlier chunk is left to go through, each step
\* hands over at most one token and then waits for the consumer.
C23_PullDriven == [](C23_Inv) /\ [][C23_Step]_vars

C23_Witness ==
  /\ payload = PayloadAB
  /\ dpc = "reading"
  /\ out = <<StrA, StrB>>
  /\ buffer # <<>>
  /\ pos < Len(payload)


\* ================================================================ trimming
\* A bound of the model: the longest message list handed to trimMessages.
MaxTrimLen == 4
\* A bound of the model: the largest maxMessages argument.
MaxKeep == 2

\* part_001:488-496  the web-search context, pushed as a second system message.
SearchContextMsg == Msg("system", "Web search results", <<>>, None)
\* An assistant reply kept in the conversation.
AssistantMsg == Msg("assistant", "It is high", <<>>, None)

\* types.ts:30-36  the messages a list handed to trimMessages is made of.
TrimAlphabet == {SystemMsg, SearchContextMsg, UserMsg, AssistantMsg}

\* Array.prototype.slice(-n): the last n elements, the whole array when it
\* is shorter, and the whole array for n = 0 (slice(-0) is slice(0)).
SliceLast(s, n) ==
  IF n = 0 \/ n >= Len(s) THEN s ELSE SubSeq(s, Len(s) - n + 1, Len(s))

\* api.ts:367-387  trimMessages.
trimMessages(msgs, maxN) ==
  IF Len(msgs) <= maxN
    THEN msgs
    ELSE SelectSeq(msgs, LAMBDA m : m.role = "system")
           \o SliceLast(SelectSeq(msgs, LAMBDA m : m.role # "system"), maxN)

\* The lists and limits trimMessages is applied to.
TrimArgs == UNION {[1..n -> TrimAlphabet] : n \in 0..MaxTrimLen}

InitTrim ==
  /\ OrchestratorIdle
  /\ DecoderIdle
  /\ ApiIdle
  /\ StoreIdle
  /\ ChatIdle
  /\ trimArg \in TrimArgs
  /\ trimMax \in 1..MaxKeep
  /\ trimResult = <<>>
  /\ trimPc = "ready"

\* api.ts:367-387  one call of trimMessages.
TrimCall ==
  /\ trimPc = "ready"
  /\ trimResult' = trimMessages(trimArg, trimMax)
  /\ trimPc' = "returned"
  /\ UNCHANGED <<trimArg, trimMax>>
  /\ UNCHANGED <<orchVars, decVars, apiVars, storeVars, chatVars>>

NextTrim == TrimCall

SpecTrim == InitTrim /\ [][NextTrim]_vars

\* ------------------------------------------------------------------ C25
\* The list the claim describes: the input itself when it is short enough,
\* otherwise the first message if it is a system message, then the last
\* maxMessages messages among those that are not system messages.
NonSystemOf(msgs) == SelectSeq(msgs, LAMBDA m : m.role # "system")
LastOf(s, n) == IF n >= Len(s) THEN s ELSE SubSeq(s, Len(s) - n + 1, Len(s))
ClaimedTrim(msgs, maxN) ==
  IF Len(msgs) <= maxN
    THEN msgs
    ELSE (IF msgs[1].role = "system" THEN <<msgs[1]>> ELSE <<>>)
           \o LastOf(NonSystemOf(msgs), maxN)

\* C25: trimMessages returns its input unchanged when it has at most
\* maxMessages messages; otherwise it keeps the system prompt only if the
\* first message has role system, plus exactly the last maxMessages
\* non-system messages in their original order.
C25_TrimKeepsFirstSystemAndTail ==
  trimPc = "returned" => trimResult = ClaimedTrim(trimArg, trimMax)


\* ================================================== conversation storage
\* A bound of the model: how many storage calls one behaviour starts.
MaxStoreOps == 3

\* part_000:15-17
INDEX_KEY == <<"conversation_index">>
CONV_PREFIX == "conv_"
MAX_INDEX_ENTRIES == 100

\* part_000:31  `${CONV_PREFIX}${conversation.id}`
ConvKey(id) == <<CONV_PREFIX, id>>

\* LocalStorage.setItem / removeItem / getItem on the items held.
SetItem(ls, key, value) ==
  [k \in DOMAIN ls \cup {key} |-> IF k = key THEN value ELSE ls[k]]
RemoveItem(ls, key) == [k \in DOMAIN ls \ {key} |-> ls[k]]
HasItem(ls, key) == key \in DOMAIN ls

\* part_000:121-125  getIndex: the stored index, [] when there is none.
getIndex(ls) == IF HasItem(ls, INDEX_KEY) THEN ls[INDEX_KEY] ELSE <<>>

\* types.ts:92-99  Conversation.
Conversation(id, title, msgs, updatedAt) ==
  [id |-> id, title |-> title, messages |-> msgs, model |-> "llama3",
   createdAt |-> 0, updatedAt |-> updatedAt]

\* part_000:38-43  the index entry of a conversation.
EntryOf(conversation) ==
  [id |-> conversation.id, title |-> conversation.title,
   model |-> conversation.model, updatedAt |-> conversation.updatedAt]

\* part_000:37, 45-48  the entry of the same id is spliced out and the new
\* entry pushed at the end.
Replaced(idx, entry) ==
  SelectSeq(idx, LAMBDA e : e.id # entry.id) \o <<entry>>

\* part_000:51  index.sort((a, b) => b.updatedAt - a.updatedAt): a stable
\* sort, most recent first.  An entry's rank is one more than the number of
\* entries that go before it; the ranks are computed once for the array.
Rank(s, i) ==
  1 + Cardinality({j \in 1..Len(s) :
                     \/ s[j].updatedAt > s[i].updatedAt
                     \/ s[j].updatedAt = s[i].updatedAt /\ j < i})
Permuted(s, rank) ==
  [k \in 1..Len(s) |-> s[CHOOSE i \in 1..Len(s) : rank[i] = k]]
SortByUpdatedAt(s) ==
  CHOOSE sorted \in
    UNION {{Permuted(v, rank) : rank \in {[i \in 1..Len(v) |-> Rank(v, i)]}} :
             v \in {s}} : TRUE

\* The cap is applied to one entry too many.
KeptOneOver(sorted) ==
  IF Len(sorted) > MAX_INDEX_ENTRIES + 1
    THEN SubSeq(sorted, 1, MAX_INDEX_ENTRIES + 1)
    ELSE sorted

\* part_000:54-55  index.splice(MAX_INDEX_ENTRIES): what stays and what is
\* removed.
Kept(sorted) ==
  IF Len(sorted) > MAX_INDEX_ENTRIES
    THEN SubSeq(sorted, 1, MAX_INDEX_ENTRIES)
    ELSE sorted
Removed(sorted) ==
  IF Len(sorted) > MAX_INDEX_ENTRIES
    THEN SubSeq(sorted, MAX_INDEX_ENTRIES + 1, Len(sorted))
    ELSE <<>>

\* part_000:80  index.filter((entry) => entry.id !== id)
Without(idx, id) == SelectSeq(idx, LAMBDA e : e.id # id)

\* part_000:99-102  the entry of the id gets the title.
Retitled(idx, id, title) ==
  [k \in 1..Len(idx) |->
     IF k = CHOOSE i \in 1..Len(idx) : idx[i].id = id
       THEN [idx[k] EXCEPT !.title = title]
       ELSE idx[k]]
HasEntry(idx, id) == \E i \in 1..Len(idx) : idx[i].id = id

\* A storage that already holds n conversations, 1 the most recent.
StoredTime(id) == 1000 - id
Filled(n) ==
  [k \in (IF n = 0 THEN {} ELSE {INDEX_KEY}) \cup {ConvKey(id) : id \in 1..n} |->
     IF k = INDEX_KEY
       THEN [i \in 1..n |->
               EntryOf(Conversation(i, "Earlier chat", <<UserMsg>>, StoredTime(i)))]
       ELSE Conversation(k[2], "Earlier chat", <<UserMsg>>, StoredTime(k[2]))]

\* The conversations and ids the calls are made with: the most recent and
\* the oldest stored ones and two new ones; older than, as old as and newer
\* than what is stored.
StoreIds == {1, MAX_INDEX_ENTRIES, MAX_INDEX_ENTRIES + 1, MAX_INDEX_ENTRIES + 2}
StoreTimes == {0, StoredTime(MAX_INDEX_ENTRIES), 2000}
Saved ==
  {Conversation(id, "price of gold today", <<UserMsg, AssistantMsg>>, t) :
     id \in StoreIds, t \in StoreTimes}

\* One storage call at one of its awaits.
StoreCall(op, id, conv, title, at, idx, removed) ==
  [op |-> op, id |-> id, conv |-> conv, title |-> title, pc |-> at,
   idx |-> idx, removed |-> removed]
NoConv == Conversation(0, "", <<>>, 0)

InitStore ==
  /\ OrchestratorIdle
  /\ DecoderIdle
  /\ ApiIdle
  /\ TrimIdle
  /\ ChatIdle
  /\ localStorage \in {Filled(0), Filled(MAX_INDEX_ENTRIES - 1),
                       Filled(MAX_INDEX_ENTRIES)}
  /\ storeCalls = <<>>
  /\ storeOps = 0

StoreFrame == UNCHANGED <<orchVars, decVars, apiVars, trimVars, chatVars>>

InFlightCalls == DOMAIN storeCalls
Begin(call) ==
  /\ storeOps < MaxStoreOps
  /\ storeOps' = storeOps + 1
  /\ storeCalls' = [c \in InFlightCalls \cup {storeOps + 1} |->
                      IF c = storeOps + 1 THEN call ELSE storeCalls[c]]
  /\ UNCHANGED localStorage
  /\ StoreFrame
Goto(c, at) == storeCalls' = [storeCalls EXCEPT ![c].pc = at]
Return(c) == storeCalls' = [d \in InFlightCalls \ {c} |-> storeCalls[d]]

\* part_000:26-28  saveConversation is called.
SaveBegins(conv) ==
  Begin(StoreCall("save", conv.id, conv, "", "putRecord", <<>>, <<>>))

\* part_000:30-33  await LocalStorage.setItem(conv key, conversation)
SavePutsRecord(c) ==
  /\ storeCalls[c].op = "save" /\ storeCalls[c].pc = "putRecord"
  /\ localStorage' = SetItem(localStorage, ConvKey(storeCalls[c].id), storeCalls[c].conv)
  /\ Goto(c, "readIndex")
  /\ UNCHANGED storeOps
  /\ StoreFrame

\* part_000:36-55  await getIndex(), then the entry is replaced, the index
\* sorted and cut to the cap.
SaveReadsIndex(c) ==
  /\ storeCalls[c].op = "save" /\ storeCalls[c].pc = "readIndex"
  /\ \E sorted \in {SortByUpdatedAt(Replaced(getIndex(localStorage),
                                               EntryOf(storeCalls[c].conv)))} :
       storeCalls' = [storeCalls EXCEPT
                         ![c].idx = Kept(sorted),
                         ![c].removed = Removed(sorted),
                         ![c].pc = IF Removed(sorted) = <<>> THEN "putIndex"
                                                            ELSE "removeOld"]
  /\ UNCHANGED <<localStorage, storeOps>>
  /\ StoreFrame

\* part_000:57-59  await LocalStorage.removeItem(key of a dropped entry)
SaveRemovesOld(c) ==
  /\ storeCalls[c].op = "save" /\ storeCalls[c].pc = "removeOld"
  /\ localStorage' = RemoveItem(localStorage, ConvKey(Head(storeCalls[c].removed).id))
  /\ storeCalls' = [storeCalls EXCEPT
                      ![c].removed = Tail(@),
                      ![c].pc = IF Tail(storeCalls[c].removed) = <<>>
                                  THEN "putIndex" ELSE "removeOld"]
  /\ UNCHANGED storeOps
  /\ StoreFrame

\* part_000:62  await LocalStorage.setItem(INDEX_KEY, index)
SavePutsIndex(c) ==
  /\ storeCalls[c].op = "save" /\ storeCalls[c].pc = "putIndex"
  /\ localStorage' = SetItem(localStorage, INDEX_KEY, storeCalls[c].idx)
  /\ Return(c)
  /\ UNCHANGED storeOps
  /\ StoreFrame

\* part_000:77  deleteConversation is called.
DeleteBegins(id) ==
  Begin(StoreCall("delete", id, NoConv, "", "removeRecord", <<>>, <<>>))

\* part_000:78  await LocalStorage.removeItem(conv key)
DeleteRemovesRecord(c) ==
  /\ storeCalls[c].op = "delete" /\ storeCalls[c].pc = "removeRecord"
  /\ localStorage' = RemoveItem(localStorage, ConvKey(storeCalls[c].id))
  /\ Goto(c, "readIndex")
  /\ UNCHANGED storeOps
  /\ StoreFrame

\* part_000:80-81  await getIndex(), then the filter.
DeleteReadsIndex(c) ==
  /\ storeCalls[c].op = "delete" /\ storeCalls[c].pc = "readIndex"
  /\ storeCalls' = [storeCalls EXCEPT
                      ![c].idx = Without(getIndex(localStorage), storeCalls[c].id),
                      ![c].pc = "putIndex"]
  /\ UNCHANGED <<localStorage, storeOps>>
  /\ StoreFrame

\* part_000:82  await LocalStorage.setItem(INDEX_KEY, updated)
DeletePutsIndex(c) ==
  /\ storeCalls[c].op = "delete" /\ storeCalls[c].pc = "putIndex"
  /\ localStorage' = SetItem(localStorage, INDEX_KEY, storeCalls[c].idx)
  /\ Return(c)
  /\ UNCHANGED storeOps
  /\ StoreFrame

\* part_000:85-88  updateConversationTitle is called.
TitleBegins(id, title) ==
  Begin(StoreCall("title", id, NoConv, title, "getRecord", <<>>, <<>>))

\* part_000:90-92  await getConversation(id); the title is set on the
\* conversation read, if there is one.
TitleReadsRecord(c) ==
  /\ storeCalls[c].op = "title" /\ storeCalls[c].pc = "getRecord"
  /\ IF HasItem(localStorage, ConvKey(storeCalls[c].id))
       THEN storeCalls' = [storeCalls EXCEPT
              ![c].conv = [localStorage[ConvKey(storeCalls[c].id)]
                             EXCEPT !.title = storeCalls[c].title],
              ![c].pc = "putRecord"]
       ELSE Goto(c, "readIndex")
  /\ UNCHANGED <<localStorage, storeOps>>
  /\ StoreFrame

\* part_000:93-96  await LocalStorage.setItem(conv key, conversation)
TitlePutsRecord(c) ==
  /\ storeCalls[c].op = "title" /\ storeCalls[c].pc = "putRecord"
  /\ localStorage' = SetItem(localStorage, ConvKey(storeCalls[c].id), storeCalls[c].conv)
  /\ Goto(c, "readIndex")
  /\ UNCHANGED storeOps
  /\ StoreFrame

\* part_000:100-103  await getIndex(); the entry, if found, gets the title.
TitleReadsIndex(c) ==
  /\ storeCalls[c].op = "title" /\ storeCalls[c].pc = "readIndex"
  /\ IF HasEntry(getIndex(localStorage), storeCalls[c].id)
       THEN storeCalls' = [storeCalls EXCEPT
              ![c].idx = Retitled(getIndex(localStorage), storeCalls[c].id,
                                  storeCalls[c].title),
              ![c].pc = "putIndex"]
       ELSE Return(c)
  /\ UNCHANGED <<localStorage, storeOps>>
  /\ StoreFrame

\* part_000:104  await LocalStorage.setItem(INDEX_KEY, index)
TitlePutsIndex(c) ==
  /\ storeCalls[c].op = "title" /\ storeCalls[c].pc = "putIndex"
  /\ localStorage' = SetItem(localStorage, INDEX_KEY, storeCalls[c].idx)
  /\ Return(c)
  /\ UNCHANGED storeOps
  /\ StoreFrame

\* The awaits of the calls in flight resolving.
StoreSteps ==
  \E c \in InFlightCalls :
    \/ SavePutsRecord(c)
    \/ SaveReadsIndex(c)
    \/ SaveRemovesOld(c)
    \/ SavePutsIndex(c)
    \/ DeleteRemovesRecord(c)
    \/ DeleteReadsIndex(c)
    \/ DeletePutsIndex(c)
    \/ TitleReadsRecord(c)
    \/ TitlePutsRecord(c)
    \/ TitleReadsIndex(c)
    \/ TitlePutsIndex(c)

\* The calls made one after the other: a call starts when none is in flight.
NextStore ==
  \/ \E conv \in Saved : InFlightCalls = {} /\ SaveBegins(conv)
  \/ \E id \in StoreIds : InFlightCalls = {} /\ DeleteBegins(id)
  \/ \E id \in StoreIds : InFlightCalls = {} /\ TitleBegins(id, "Renamed")
  \/ StoreSteps

SpecStore == InitStore /\ [][NextStore]_vars


\* ------------------------------------------------------------------ C29
\* The ids a conversation may be stored under.
AllIds == 1..(MAX_INDEX_ENTRIES + 2)
IndexedIds(ls) == {getIndex(ls)[i].id : i \in 1..Len(getIndex(ls))}
RecordedIds(ls) == {id \in AllIds : HasItem(ls, ConvKey(id))}

\* C29: after any sequence of sequentially executed saveConversation,
\* deleteConversation and updateConversationTitle calls, the index holds at
\* most 100 entries with pairwise distinct ids, and an id is in the index
\* exactly when a conversation record is stored under it.
C29_IndexMatchesRecords ==
  InFlightCalls = {} =>
    /\ Len(getIndex(localStorage)) <= 100
    /\ Cardinality(IndexedIds(localStorage)) = Len(getIndex(localStorage))
    /\ IndexedIds(localStorage) = RecordedIds(localStorage)

\* A save into a full index has dropped the oldest conversation, record
\* and entry.
C29_Witness ==
  /\ InFlightCalls = {}
  /\ storeOps > 0
  /\ Len(getIndex(localStorage)) = 100
  /\ 101 \in IndexedIds(localStorage)
  /\ 100 \notin IndexedIds(localStorage)
  /\ ~HasItem(localStorage, ConvKey(100))


\* ---------------------------------------------------- interleaved calls
\* A caller does not wait for a call to return before it makes the next
\* one, for another conversation: the awaits of the two calls interleave.
\* MaxRaceCalls is a bound of the model: the calls one behaviour makes.
MaxRaceCalls == 2
OtherConversation(id) ==
  /\ storeOps < MaxRaceCalls
  /\ \A c \in InFlightCalls : storeCalls[c].id # id

NextStoreRace ==
  \/ \E conv \in Saved : OtherConversation(conv.id) /\ SaveBegins(conv)
  \/ \E id \in StoreIds : OtherConversation(id) /\ DeleteBegins(id)
  \/ \E c \in InFlightCalls :
       \/ SavePutsRecord(c)
       \/ SaveReadsIndex(c)
       \/ SaveRemovesOld(c)
       \/ SavePutsIndex(c)
       \/ DeleteRemovesRecord(c)
       \/ DeleteReadsIndex(c)
       \/ DeletePutsIndex(c)

SpecStoreRace == InitStore /\ [][NextStoreRace]_vars

\* ------------------------------------------------------------------ C30
\* C30: when two saveConversation calls (or a saveConversation and a
\* deleteConversation) for different conversations interleave at their
\* storage awaits, no update is lost: after both complete, the index lists
\* every conversation whose record is stored and no conversation whose
\* record was removed.
C30_NoLostUpdate ==
  InFlightCalls = {} =>
    \A id \in AllIds :
      HasEntry(getIndex(localStorage), id) <=> HasItem(localStorage, ConvKey(id))


\* ============================================================== chat view
\* Bounds of the model: the chat turns one behaviour starts, the tokens one
\* stream delivers, and how often New Conversation is chosen.
MaxTurns == 2
MaxTokens == 2
MaxResets == 1

\* types.ts:29-36  a ChatMessage of the view; its content is the sequence
\* of the pieces of text it is put together from, images is <<>> when the
\* field is undefined.
ViewMsg(role, content, images) ==
  [role |-> role, content |-> content, images |-> images]

\* part_001:460-464  the user message of a turn.
UserMessage(text, images) ==
  ViewMsg("user",
          IF text # <<>> THEN text
          ELSE IF images # <<>> THEN <<"What's in this image?">> ELSE <<>>,
          images)

\* part_001:561-564, 580-583  the assistant message made of fullResponse.
AssistantMessage(fullResponse) == ViewMsg("assistant", fullResponse, <<>>)

\* What the user types (trimmed, part_001:456), and what a stream yields
\* (part_006:70-72: never an empty token).
UserInputs == {<<"price of gold today">>}
Tokens == {"Hi", " "}

\* fullResponse.trim() is empty.
IsBlank(fullResponse) == \A i \in 1..Len(fullResponse) : fullResponse[i] = " "

\* part_000:112-119  generateTitle: the first user message's text (the
\* texts here have at most 50 characters).
generateTitle(msgs) ==
  IF \E i \in 1..Len(msgs) : msgs[i].role = "user"
    THEN msgs[CHOOSE i \in 1..Len(msgs) :
                /\ msgs[i].role = "user"
                /\ \A j \in 1..(i - 1) : msgs[j].role # "user"].content
    ELSE <<"New Conversation">>

RECURSIVE RemoveAll(_, _)
\* part_000:57-59  the records of the dropped entries are removed.
RemoveAll(ls, removed) ==
  IF removed = <<>> THEN ls
  ELSE RemoveAll(RemoveItem(ls, ConvKey(Head(removed).id)), Tail(removed))

\* part_000:26-63  saveConversation, run to its return.
SavedWith(ls, conversation, sorted) ==
  SetItem(RemoveAll(SetItem(ls, ConvKey(conversation.id), conversation),
                    Removed(sorted)),
          INDEX_KEY, Kept(sorted))
saveConversation(ls, conversation) ==
  SavedWith(ls, conversation,
            SortByUpdatedAt(Replaced(getIndex(ls), EntryOf(conversation))))

\* One handleSendMessage call past its guards, at one of its awaits.
Turn(phase, updatedMessages, id, hasImages, fullResponse) ==
  [phase |-> phase, updatedMessages |-> updatedMessages,
   conversationId |-> id, hasImages |-> hasImages,
   fullResponse |-> fullResponse]

\* The values of the render a callback was made in (part_001:619-629).
Closure(at) ==
  [isLoading |-> isLoading, hasConfig |-> hasConfig,
   messages |-> viewMessages, conversationId |-> conversationId, pc |-> at]

\* A call that returned: its locals are gone.
Returned(turn, outcome) == Turn(outcome, <<>>, turn.conversationId, FALSE, <<>>)

Started == DOMAIN turns
Running == {t \in Started : turns[t].phase \in {"searching", "calling", "streaming"}}

InitChat ==
  /\ OrchestratorIdle
  /\ DecoderIdle
  /\ ApiIdle
  /\ TrimIdle
  /\ StoreIdle
  /\ viewMessages = <<>>
  /\ isLoading = FALSE
  /\ hasConfig = FALSE
  /\ conversationId = 1
  /\ initDone = FALSE
  /\ autoSendImageRef = None
  /\ turns = <<>>
  /\ clipboardRead = NoClosure
  /\ idsMade = 1
  /\ clock = 1

ChatFrame == UNCHANGED <<orchVars, decVars, apiVars, trimVars, storeCalls, storeOps>>

\* part_001:349-358  the provider configuration is loaded and a pending
\* image of the launch context is put aside.
ConfigLoaded(pendingImage) ==
  /\ ~hasConfig
  /\ hasConfig' = TRUE
  /\ autoSendImageRef' = pendingImage
  /\ UNCHANGED <<viewMessages, isLoading, conversationId, initDone, turns,
                 clipboardRead, idsMade, clock, localStorage>>
  /\ ChatFrame

\* part_001:425-438  the initialisation ends.
InitCompletes ==
  /\ hasConfig /\ ~initDone
  /\ initDone' = TRUE
  /\ UNCHANGED <<viewMessages, isLoading, hasConfig, conversationId,
                 autoSendImageRef, turns, clipboardRead, idsMade, clock,
                 localStorage>>
  /\ ChatFrame

\* part_001:454-508  handleSendMessage as the callback of the render c,
\* up to its first await: the guards, the user message, the loading flag.
\* A Tier-1 web search (searching) is awaited before the transport call.
Send(c, text, images, searching) ==
  /\ Len(turns) < MaxTurns
  /\ c.hasConfig /\ ~c.isLoading
  /\ text # <<>> \/ images # <<>>
  /\ viewMessages' = c.messages \o <<UserMessage(text, images)>>
  /\ isLoading' = TRUE
  /\ turns' = Append(turns,
                     Turn(IF searching THEN "searching" ELSE "calling",
                          c.messages \o <<UserMessage(text, images)>>,
                          c.conversationId, images # <<>>, <<>>))

\* part_001:707-711  the Send Message action.
SendMessage(text, searching) ==
  /\ Send(Closure("idle"), text, <<>>, searching)
  /\ UNCHANGED <<hasConfig, conversationId, initDone, autoSendImageRef,
                 clipboardRead, idsMade, clock, localStorage>>
  /\ ChatFrame

\* part_001:632-638  the pending image is sent once the view is ready.
AutoSend ==
  /\ autoSendImageRef # None /\ initDone /\ hasConfig /\ ~isLoading
  /\ autoSendImageRef' = None
  /\ Send(Closure("idle"), <<>>, <<autoSendImageRef>>, FALSE)
  /\ UNCHANGED <<hasConfig, conversationId, initDone, clipboardRead, idsMade,
                 clock, localStorage>>
  /\ ChatFrame

\* part_001:712-717  the Send Clipboard Image action awaits
\* readClipboardImage; it holds the handleSendMessage of its render.
ClipboardAction ==
  /\ clipboardRead.pc = "idle"
  /\ Len(turns) < MaxTurns
  /\ clipboardRead' = Closure("reading")
  /\ UNCHANGED <<viewMessages, isLoading, hasConfig, conversationId, initDone,
                 autoSendImageRef, turns, idsMade, clock, localStorage>>
  /\ ChatFrame

\* part_001:718-719  the clipboard held an image: handleSendMessage of the
\* action's render is called, and returns at once if its guard says so.
ClipboardImage ==
  /\ clipboardRead.pc = "reading"
  /\ clipboardRead' = NoClosure
  /\ IF clipboardRead.hasConfig /\ ~clipboardRead.isLoading
       THEN Send(clipboardRead, <<>>, <<"clipboard.png">>, FALSE)
       ELSE UNCHANGED <<viewMessages, isLoading, turns>>
  /\ UNCHANGED <<hasConfig, conversationId, initDone, autoSendImageRef,
                 idsMade, clock, localStorage>>
  /\ ChatFrame

\* part_001:720-726  no image in the clipboard: a toast.
ClipboardEmpty ==
  /\ clipboardRead.pc = "reading"
  /\ clipboardRead' = NoClosure
  /\ UNCHANGED <<viewMessages, isLoading, hasConfig, conversationId, initDone,
                 autoSendImageRef, turns, idsMade, clock, localStorage>>
  /\ ChatFrame

\* part_001:640-652  handleNewConversation.
handleNewConversation ==
  /\ idsMade < 1 + MaxResets
  /\ viewMessages' = <<>>
  /\ conversationId' = idsMade + 1
  /\ idsMade' = idsMade + 1
  /\ isLoading' = FALSE
  /\ UNCHANGED <<hasConfig, initDone, autoSendImageRef, turns, clipboardRead,
                 clock, localStorage>>
  /\ ChatFrame

TurnFrame ==
  /\ UNCHANGED <<hasConfig, conversationId, initDone, autoSendImageRef,
                 clipboardRead, idsMade>>
  /\ ChatFrame

\* part_001:485-504  the web search returns or fails; the turn goes on.
SearchSettles(t) ==
  /\ turns[t].phase = "searching"
  /\ turns' = [turns EXCEPT ![t].phase = "calling"]
  /\ UNCHANGED <<viewMessages, isLoading, clock, localStorage>>
  /\ TurnFrame

\* part_001:516-535  runWithTools or sendChatStream returns the stream.
CallResolves(t) ==
  /\ turns[t].phase = "calling"
  /\ turns' = [turns EXCEPT ![t].phase = "streaming"]
  /\ UNCHANGED <<viewMessages, isLoading, clock, localStorage>>
  /\ TurnFrame

\* part_001:538-540  the stream yields a token.
TokenArrives(t, token) ==
  /\ turns[t].phase = "streaming"
  /\ Len(turns[t].fullResponse) < MaxTokens
  /\ turns' = [turns EXCEPT ![t].fullResponse = Append(@, token)]
  /\ UNCHANGED <<viewMessages, isLoading, clock, localStorage>>
  /\ TurnFrame

\* part_001:561-577, 580-596  the assistant message is appended to the
\* turn's messages and the conversation saved.
AppendAndSave(t) ==
  /\ viewMessages' = turns[t].updatedMessages
                       \o <<AssistantMessage(turns[t].fullResponse)>>
  /\ localStorage' =
       saveConversation(localStorage,
         Conversation(turns[t].conversationId,
                      generateTitle(turns[t].updatedMessages
                                      \o <<AssistantMessage(turns[t].fullResponse)>>),
                      turns[t].updatedMessages
                        \o <<AssistantMessage(turns[t].fullResponse)>>,
                      clock))
  /\ clock' = clock + 1

\* part_001:547-577, 614-616  the stream ends.
StreamCompletes(t) ==
  /\ turns[t].phase = "streaming"
  /\ IF IsBlank(turns[t].fullResponse) /\ turns[t].hasImages
       THEN /\ turns' = [turns EXCEPT ![t] = Returned(@, "empty")]
            /\ UNCHANGED <<viewMessages, clock, localStorage>>
       ELSE /\ turns' = [turns EXCEPT ![t] = Returned(@, "completed")]
            /\ AppendAndSave(t)
  /\ isLoading' = FALSE
  /\ TurnFrame

\* A failure leaves the loading flag set and the partial response unsaved.
FailsNoCleanup(t) ==
  /\ turns[t].phase \in {"calling", "streaming"}
  /\ turns' = [turns EXCEPT ![t] = Returned(@, "failed")]
  /\ UNCHANGED <<viewMessages, isLoading, clock, localStorage>>
  /\ TurnFrame

\* part_001:578-616  the transport call or the stream throws: the partial
\* response, if any, is appended and saved; the loading flag is reset.
Fails(t) ==
  /\ turns[t].phase \in {"calling", "streaming"}
  /\ turns' = [turns EXCEPT ![t] = Returned(@, "failed")]
  /\ IF turns[t].fullResponse # <<>>
       THEN AppendAndSave(t)
       ELSE UNCHANGED <<viewMessages, clock, localStorage>>
  /\ isLoading' = FALSE
  /\ TurnFrame

NextChat ==
  \/ \E img \in {None, "screenshot.png"} : ConfigLoaded(img)
  \/ InitCompletes
  \/ \E text \in UserInputs, searching \in BOOLEAN : SendMessage(text, searching)
  \/ AutoSend
  \/ ClipboardAction
  \/ ClipboardImage
  \/ ClipboardEmpty
  \/ handleNewConversation
  \/ \E t \in Running : SearchSettles(t)
  \/ \E t \in Running : CallResolves(t)
  \/ \E t \in Running, token \in Tokens : TokenArrives(t, token)
  \/ \E t \in Running : StreamCompletes(t)
  \/ \E t \in Running : Fails(t)

SpecChat == InitChat /\ [][NextChat]_vars


\* ------------------------------------------------------------------ C24
\* The turns whose transport call or token stream is in flight.
InFlightTurns == {t \in Started : turns[t].phase \in {"calling", "streaming"}}

\* C24: the chat view serializes turns: whatever the user does (send
\* message, send clipboard image, auto-send of a pending image, new
\* conversation), no chat turn is started while a previous turn's transport
\* call or token stream is still in flight.
C24_TurnsSerialized ==
  [][Len(turns') > Len(turns) => InFlightTurns = {}]_vars

\* ------------------------------------------------------------------ C27
\* The turn t ends in this step.
Ends(t) ==
  /\ t \in Running
  /\ turns'[t].phase \in {"completed", "empty", "failed"}
PartialMessages(t) ==
  turns[t].updatedMessages \o <<AssistantMessage(turns[t].fullResponse)>>
C27_Step ==
  \A t \in Started :
    Ends(t) =>
      /\ isLoading' = FALSE
      /\ turns'[t].phase = "failed" /\ turns[t].fullResponse # <<>> =>
           /\ viewMessages' = PartialMessages(t)
           /\ Len(viewMessages') = Len(turns[t].updatedMessages) + 1
           /\ viewMessages'[Len(viewMessages') - 1].role = "user"
           /\ HasItem(localStorage', ConvKey(turns[t].conversationId))
           /\ localStorage'[ConvKey(turns[t].conversationId)].messages
                = PartialMessages(t)
           /\ HasEntry(getIndex(localStorage'), turns[t].conversationId)
      /\ turns'[t].phase = "failed" /\ turns[t].fullResponse = <<>> =>
           /\ viewMessages' = viewMessages
           /\ localStorage' = localStorage

\* C27: when a turn fails after at least one token was received, the tokens
\* received so far are appended as one assistant message after the user
\* message and the conversation is saved; when it fails before any token
\* was received, no assistant message is appended and nothing is saved; in
\* both cases, and on success, the loading flag is reset to false when the
\* turn ends.
C27_FailedTurnKeepsPartial == [][C27_Step]_vars

\* A turn failed after two tokens; its partial response is the last message
\* of the view and of the stored conversation.
C27_Witness ==
  /\ Len(turns) = 1
  /\ turns[1].phase = "failed"
  /\ Len(viewMessages) = 2
  /\ viewMessages[1].role = "user"
  /\ viewMessages[2] = AssistantMessage(<<"Hi", " ">>)
  /\ HasItem(localStorage, ConvKey(turns[1].conversationId))
  /\ localStorage[ConvKey(turns[1].conversationId)].messages = viewMessages
  /\ ~isLoading
====
